---- MODULE Spec2Model ----
(***************************************************************************)
(* Model of the core of dreamina2api:                                      *)
(*   - request          (src/src/api/controllers/core.ts)   the retrying   *)
(*                      client of the upstream job API                     *)
(*   - checkResult      (src/src/api/controllers/core.ts)   the envelope   *)
(*                      {ret, errmsg, data}                                *)
(*   - uploadImageForVideo / uploadImageFromUrl   the upload pipeline      *)
(*   - generateVideo    (src/src/api/controllers/videos.ts) the polling    *)
(*                      loop, and the upload of the frames with the        *)
(*                      submission of the job                              *)
(*   - createCompletion, createCompletionStream  (src/unnamed/part_000)    *)
(*   - generateImageComposition, waitForImageGeneration: their polling     *)
(*                      loops (src/unnamed/part_000)                       *)
(* One behaviour runs one call of one operation; the variable op says      *)
(* which.  Strings of the program whose content the code inspects (ret,    *)
(* error messages) are sequences: ret of its characters, a message of its  *)
(* words, so that Number(ret) and message.includes(w) are computed.        *)
(***************************************************************************)
EXTENDS Integers, Sequences, FiniteSets, TLC

VARIABLES
    op,         \* the operation this behaviour runs
    \* ---- request (core.ts:196-312)
    options,    \* the AxiosRequestConfig given to request: its responseType
    retries,    \* let retries = 0
    lastError,  \* let lastError = null
    reqPc,      \* where request is: "delay", "send", "after", "done", "idle"
    reqLog,     \* what request did so far: its waits and its HTTP attempts
    lastAttempt,\* what the latest HTTP attempt ended with, in full
    reqOut,     \* how request ended: returned a value or raised an error
    \* ---- generateVideo, the polling loop (videos.ts:535-675)
    status,     \* let status = 20
    failCode,   \* let failCode
    item_list,  \* let item_list = []: the video of its first item, if any
    retryCount, \* let retryCount = 0
    pollPc,     \* where generateVideo is: "poll", "after", "done", "idle"
    queries,    \* the status queries issued so far
    lastWait,   \* the latest wait between two cycles, in ms (0: none yet)
    lastAnswer, \* what the latest status query was answered with
    answered,   \* the status queries so far were answered: "onlyPending" (each by
                \* a record of status 20), "onlyRecords" (each by a record),
                \* "pendingThenText" (records of status 20, then a response
                \* whose text holds a video URL), "mixed"
    caught,     \* the error the latest cycle's catch block caught, if any
    pollOut,    \* how generateVideo ended
    \* ---- uploadImageForVideo (videos.ts:123-318), uploadImageFromUrl
    imageSize,  \* the size the remote file reports, against FILE_MAX_SIZE
    upPc,       \* the step the pipeline is at: "token", "download", "apply",
                \* "upload", "commit", "done", "idle"; "waiting" is an
                \* await that is never settled
    upCalls,    \* the calls issued so far, in order
    tokenResult,    \* what get_upload_token answered
    imageResponse,  \* what the download of the image answered
    applyResponse,  \* what ApplyImageUpload answered
    uploadResponse, \* what the raw upload answered
    commitResponse, \* what CommitImageUpload answered
    upOut,      \* how the pipeline ended: the image URI returned, or raised
    \* ---- generateVideo, the upload of the frames and the submission
    \* (videos.ts:351-533)
    filePaths,  \* the filePaths the call is made with
    frameIndex, \* i of the for loop, counted from 1
    uploadIDs,  \* let uploadIDs = []
    frameLog,   \* what each upload of the loop ended with
    first_frame_image,  \* let first_frame_image = undefined
    end_frame_image,    \* let end_frame_image = undefined
    framePc,    \* where generateVideo is: "uploads", "frames", "submit",
                \* "done", "idle"
    submitted,  \* the jobs submitted to /mweb/v1/aigc_draft/generate
    frameOut,   \* how this part of generateVideo ended
    \* ---- createCompletionStream for a video model (part_000:172-509)
    stream,     \* the PassThrough given to the caller: "none", "open",
                \* "destroyed" (closed by the caller), "ended"
    progressInterval,   \* the 5 s interval: "none", "set", "cleared"
    timeoutId,  \* the 2-minute timeout: "none", "pending", "fired", "cleared"
    chunks,     \* the chunks written to the stream, by kind
    videoPromise,   \* generateVideo(...).then/.catch: "none", "pending", "settled"
    \* ---- createCompletion (part_000:47-162)
    messages,   \* the messages of the call: "empty" or "some"
    ccModel,    \* isVideoModel(_model): "video" or "image"
    ccRetryCount,   \* the parameter retryCount of the (recursive) call
    ccRuns,     \* what each run of the generation ended with
    ccPc,       \* where createCompletion is: "run", "delay", "done", "idle"
    ccOut,      \* how createCompletion ended
    \* ---- generateImageComposition, the polling loop (part_000:958-1018)
    icStatus,   \* let status = 20
    icFailCode, \* let failCode
    icItems,    \* let item_list = []: "none", or items with or without a URL
    pollCount,  \* let pollCount = 0
    icPc,       \* where the function is: "poll", "after", "done", "idle"
    icLast,     \* what the latest status query was answered with
    icOut,      \* how generateImageComposition ended
    \* ---- waitForImageGeneration (part_000:1317-1376)
    wfMaxPollCount, \* options.maxPollCount
    wfPollCount,    \* let pollCount = 0
    wfPc,       \* where the function is: "poll", "final", "done", "idle"
    wfLast,     \* what the latest query was answered with
    wfOut,      \* how waitForImageGeneration ended
    \* ---- the functions of a single call
    call        \* the call: its argument and, once made, its result

reqVars == <<options, retries, lastError, reqPc, reqLog, lastAttempt, reqOut>>

pollVars ==
    <<status, failCode, item_list, retryCount, pollPc, queries, lastWait,
      lastAnswer, answered, caught, pollOut>>

upVars ==
    <<imageSize, upPc, upCalls, tokenResult, imageResponse, applyResponse, uploadResponse,
      commitResponse, upOut>>

frameVars ==
    <<filePaths, frameIndex, uploadIDs, frameLog, first_frame_image,
      end_frame_image, framePc, submitted, frameOut>>

\* The components added after the first three.
streamVars == <<stream, progressInterval, timeoutId, chunks, videoPromise>>

ccVars == <<messages, ccModel, ccRetryCount, ccRuns, ccPc, ccOut>>

icVars == <<icStatus, icFailCode, icItems, pollCount, icPc, icLast, icOut>>

wfVars == <<wfMaxPollCount, wfPollCount, wfPc, wfLast, wfOut>>

jobVars == <<frameVars, streamVars, ccVars, icVars, wfVars>>

vars == <<op, call, reqVars, pollVars, upVars, jobVars>>

\* ------------------------------------------------------------------------
\* Program constants
\* ------------------------------------------------------------------------

MAX_RETRY_COUNT == 3

RETRY_DELAY == 5000

\* const maxRetries = RETRY_CONFIG.MAX_RETRY_COUNT, and the same taken one too high
maxRetriesOneMore == MAX_RETRY_COUNT + 1

maxRetries == MAX_RETRY_COUNT

\* ------------------------------------------------------------------------
\* Values
\* ------------------------------------------------------------------------

Digits == {"0", "1", "2", "3", "4", "5", "6", "7", "8", "9"}

DigitValue(c) ==
    CASE c = "0" -> 0 [] c = "1" -> 1 [] c = "2" -> 2 [] c = "3" -> 3
      [] c = "4" -> 4 [] c = "5" -> 5 [] c = "6" -> 6 [] c = "7" -> 7
      [] c = "8" -> 8 [] c = "9" -> 9

\* A JavaScript value found in the ret field of a response body.
RetUndefined == [type |-> "undefined", chars |-> <<>>, num |-> 0]
RetString(cs) == [type |-> "string", chars |-> cs, num |-> 0]
RetNumber(n) == [type |-> "number", chars |-> <<>>, num |-> n]

RetValues ==
    { RetUndefined,
      RetString(<<"0">>), RetNumber(0),
      RetString(<<"1", "0", "1", "5">>), RetNumber(1015) }

\* Texts the upstream puts in errmsg, as words.
ErrMsgs ==
    { <<"success">>,
      <<"invalid", "parameter">>,
      <<"request", "timeout">>,
      <<"network", "busy">> }

Payloads == {"payload"}

\* response.data
NoBody == [shape |-> "undefined", ret |-> RetUndefined, errmsg |-> <<>>, data |-> "none"]
TextBody == [shape |-> "text", ret |-> RetUndefined, errmsg |-> <<>>, data |-> "none"]
Envelope(r, m, d) == [shape |-> "object", ret |-> r, errmsg |-> m, data |-> d]

Bodies ==
    {NoBody, TextBody}
    \cup { Envelope(r, m, d) : r \in RetValues, m \in ErrMsgs, d \in Payloads }

\* An error object: its name, its code property and its message.
NoError == [name |-> "null", code |-> "", message |-> <<>>, body |-> NoBody]
MkError(n, c, m) == [name |-> n, code |-> c, message |-> m, body |-> NoBody]

\* What axios.request rejects with when the transport fails.
TimeoutError == MkError("AxiosError", "ECONNABORTED", <<"timeout", "of", "45000ms", "exceeded">>)
ConnectTimedOut == MkError("AxiosError", "ETIMEDOUT", <<"connect", "ETIMEDOUT">>)
ConnectionReset == MkError("AxiosError", "ECONNRESET", <<"read", "ECONNRESET">>)
SocketHangUp == MkError("AxiosError", "ECONNRESET", <<"socket", "hang", "up">>)
NotFoundError == MkError("AxiosError", "ENOTFOUND", <<"getaddrinfo", "ENOTFOUND">>)

TransportErrors ==
    {TimeoutError, ConnectTimedOut, ConnectionReset, SocketHangUp, NotFoundError}

HttpStatuses == {200, 404, 500}

\* What one call of axios.request ends with (validateStatus: () => true, so
\* every HTTP status resolves).
Response(s, b) == [kind |-> "response", status |-> s, body |-> b, err |-> NoError]
Failure(e) == [kind |-> "error", status |-> 0, body |-> NoBody, err |-> e]

AxiosOutcomes ==
    { Response(s, b) : s \in HttpStatuses, b \in Bodies }
    \cup { Failure(e) : e \in TransportErrors }

\* ------------------------------------------------------------------------
\* checkResult (core.ts:464-474)
\* ------------------------------------------------------------------------

RECURSIVE DecimalValue(_)
DecimalValue(cs) ==
    IF cs = <<>> THEN 0
    ELSE 10 * DecimalValue(SubSeq(cs, 1, Len(cs) - 1)) + DigitValue(cs[Len(cs)])

\* Number(ret): finite says whether the result is a finite number.
ToNumber(ret) ==
    CASE ret.type = "undefined" -> [finite |-> FALSE, value |-> 0]
      [] ret.type = "number" -> [finite |-> TRUE, value |-> ret.num]
      [] ret.type = "string" ->
            IF \A i \in 1..Len(ret.chars) : ret.chars[i] \in Digits
            THEN [finite |-> TRUE, value |-> DecimalValue(ret.chars)]
            ELSE [finite |-> FALSE, value |-> 0]

\* ret === '0'
IsStringZero(ret) == ret.type = "string" /\ ret.chars = <<"0">>

Return(v) == [kind |-> "returned", value |-> v, error |-> NoError]
Throw(e) == [kind |-> "raised", value |-> [kind |-> "none"], error |-> e]
Pending == [kind |-> "none", value |-> [kind |-> "none"], error |-> NoError]

\* Values request returns.
WholeBody(b) == [kind |-> "body", body |-> b, data |-> "none", status |-> 0]
DataOf(b) == [kind |-> "data", body |-> NoBody, data |-> b.data, status |-> 0]
RawResponse(resp) == [kind |-> "response", body |-> resp.body, data |-> "none", status |-> resp.status]

\* DreaminaErrorHandler.handleApiResponse: raises the typed failure of an
\* error envelope; its message holds the upstream's errmsg.
handleApiResponse(body) ==
    [name |-> "APIException", code |-> "", message |-> body.errmsg, body |-> body]

DestructureError ==
    MkError("TypeError", "", <<"Cannot", "destructure", "property", "ret">>)

checkResult(result) ==
    IF result.body.shape = "undefined" THEN Throw(DestructureError)
    ELSE IF ~ToNumber(result.body.ret).finite THEN Return(WholeBody(result.body))
    ELSE IF IsStringZero(result.body.ret) THEN Return(DataOf(result.body))
    ELSE Throw(handleApiResponse(result.body))

\* ------------------------------------------------------------------------
\* request (core.ts:196-312)
\* ------------------------------------------------------------------------

Includes(message, word) == \E i \in 1..Len(message) : message[i] = word

\* core.ts:286-287: the errors the catch block retries
IsRetryableError(error) ==
    \/ error.code = "ECONNABORTED"
    \/ error.code = "ETIMEDOUT"
    \/ Includes(error.message, "timeout")
    \/ Includes(error.message, "network")

\* retries < maxRetries stopping one attempt early
CanRetryOneLess(r) == r < maxRetries - 1

\* core.ts:273 and core.ts:288: retries < maxRetries
CanRetry(r) == r < maxRetries

\* core.ts:241-247: the loop condition, then the wait before a retried attempt
LoopHead(r) ==
    IF r <= maxRetries THEN (IF r > 0 THEN "delay" ELSE "send") ELSE "after"

\* The log keeps, of an attempt, its kind, its HTTP status and its error code.
WaitEvent(ms) == [ev |-> "wait", ms |-> ms, kind |-> "none", status |-> 0, code |-> ""]
AttemptEvent(o) ==
    [ev |-> "attempt", ms |-> 0, kind |-> o.kind, status |-> o.status, code |-> o.err.code]

Attempts(log) == SelectSeq(log, LAMBDA e : e.ev = "attempt")
Waits(log) == SelectSeq(log, LAMBDA e : e.ev = "wait")

\* core.ts:282: lastError = error
RecordError(old, error) == error

\* The catch block (core.ts:281-295): the error is kept, and the attempt is
\* either repeated or the loop is left.
Catch(error, o) ==
    /\ lastError' = RecordError(lastError, error)
    /\ reqLog' = Append(reqLog, AttemptEvent(o))
    /\ lastAttempt' = o
    /\ reqOut' = reqOut
    /\ IF IsRetryableError(error) /\ CanRetry(retries)
       THEN /\ retries' = retries + 1
            /\ reqPc' = LoopHead(retries + 1)
       ELSE /\ retries' = retries
            /\ reqPc' = "after"

Finish(out, o) ==
    /\ reqOut' = out
    /\ reqLog' = Append(reqLog, AttemptEvent(o))
    /\ lastAttempt' = o
    /\ reqPc' = "done"
    /\ UNCHANGED <<retries, lastError>>

\* core.ts:263: a streaming response is returned as it is
IsStream(opts) == opts.responseType = "stream"

\* the status check taking only server errors for failures
RetriesServerErrors(resp, r) == resp.status >= 500 /\ CanRetry(r)

\* core.ts:271-277
RetriesStatus(resp, r) == resp.status >= 400 /\ CanRetry(r)

\* core.ts:246: await new Promise(resolve => setTimeout(resolve, RETRY_DELAY))
RetryWait ==
    /\ op = "request"
    /\ reqPc = "delay"
    /\ reqLog' = Append(reqLog, WaitEvent(RETRY_DELAY))
    /\ reqPc' = "send"
    /\ UNCHANGED <<op, call, options, retries, lastError, lastAttempt, reqOut, pollVars, upVars, jobVars>>

\* core.ts:249-279: axios.request answers with a response
AttemptResponse ==
    /\ op = "request"
    /\ reqPc = "send"
    /\ \E s \in HttpStatuses, b \in Bodies :
         LET resp == Response(s, b)
         IN  IF IsStream(options) THEN Finish(Return(RawResponse(resp)), resp)
             ELSE IF RetriesStatus(resp, retries)
             THEN /\ retries' = retries + 1
                  /\ reqPc' = LoopHead(retries + 1)
                  /\ reqLog' = Append(reqLog, AttemptEvent(resp))
                  /\ lastAttempt' = resp
                  /\ UNCHANGED <<lastError, reqOut>>
             ELSE IF checkResult(resp).kind = "returned"
             THEN Finish(checkResult(resp), resp)
             ELSE Catch(checkResult(resp).error, resp)
    /\ UNCHANGED <<op, call, options, pollVars, upVars, jobVars>>

\* core.ts:249-257 and 281-295: axios.request rejects
AttemptFailure ==
    /\ op = "request"
    /\ reqPc = "send"
    /\ \E e \in TransportErrors : Catch(e, Failure(e))
    /\ UNCHANGED <<op, call, options, pollVars, upVars, jobVars>>

NoDetailError ==
    MkError("Error", "", <<"request", "failed", "without", "error", "detail">>)

\* core.ts:298-311: after the loop the last error is raised
RaiseLast ==
    /\ op = "request"
    /\ reqPc = "after"
    /\ reqOut' = IF lastError # NoError THEN Throw(lastError) ELSE Throw(NoDetailError)
    /\ reqPc' = "done"
    /\ UNCHANGED <<op, call, options, retries, lastError, reqLog, lastAttempt, pollVars, upVars, jobVars>>

ResponseTypes == {"json", "stream"}

InitRequest ==
    /\ options \in { [responseType |-> t] : t \in ResponseTypes }
    /\ retries = 0
    /\ lastError = NoError
    /\ reqPc = LoopHead(0)
    /\ reqLog = <<>>
    /\ lastAttempt = Failure(NoError)
    /\ reqOut = Pending

IdleRequest ==
    /\ options = [responseType |-> "json"]
    /\ retries = 0
    /\ lastError = NoError
    /\ reqPc = "idle"
    /\ reqLog = <<>>
    /\ lastAttempt = Failure(NoError)
    /\ reqOut = Pending


\* ------------------------------------------------------------------------
\* generateVideo: the polling loop (videos.ts:535-675)
\* ------------------------------------------------------------------------

\* const maxRetries = 60 (videos.ts:537)
maxPollRetries == 60

\* The status queries a behaviour may issue: the model's bound on a loop
\* that the code itself may not bound.
MaxQueries == 62

\* The same bound for a generateVideo that createCompletionStream started.
MaxStreamQueries == 3

\* The operations that run generateVideo's polling loop.
PollingOps == {"generateVideo", "createCompletionStream"}

QueryCap == IF op = "generateVideo" THEN MaxQueries ELSE MaxStreamQueries

\* The status queries counted so far, up to the bound.
CountQuery == IF queries < QueryCap THEN queries + 1 ELSE queries

\* Under createCompletionStream the bound is on the cycles that raise the
\* attempt counter: a cycle answered by a record goes on beyond it, as it
\* comes back to a state the loop was in.
RecordQueryAllowed == op = "generateVideo" => queries < QueryCap

\* fail_code as the upstream sends it
NoFailCode == [type |-> "undefined", text |-> ""]
FailCodeString(t) == [type |-> "string", text |-> t]
FailCodeNumber(t) == [type |-> "number", text |-> t]

FailCodes == {NoFailCode, FailCodeString("2038"), FailCodeString("1000"), FailCodeNumber("2038")}

\* item_list: empty, or a first item with the URL fields of its video; ""
\* is a field that is absent or empty.
NoItems == [len |-> 0, origin |-> "", play_url |-> "", download_url |-> "", url |-> ""]
Item(o, p, d, u) == [len |-> 1, origin |-> o, play_url |-> p, download_url |-> d, url |-> u]

ItemLists ==
    { NoItems,
      Item("", "", "", ""),
      Item("urlOrigin", "urlPlay", "urlDownload", "urlUrl"),
      Item("", "urlPlay", "urlDownload", "urlUrl"),
      Item("", "", "urlDownload", "urlUrl"),
      Item("", "", "", "urlUrl") }

StatusCodes == {10, 20, 30, 42, 45, 50}

\* A history record of a status response.
Record(s, f, il) == [status |-> s, fail_code |-> f, item_list |-> il]

\* The records the upstream answers with; a record still in progress
\* carries no fail code.
Records ==
    { Record(s, f, il) : s \in StatusCodes \ {20}, f \in FailCodes, il \in ItemLists }
    \cup { Record(20, NoFailCode, il) : il \in {NoItems, Item("", "", "", "")} }

\* The field of the response that holds the record.
RecordFields == {"history_list", "history_records"}

\* an alternate query in every cycle whose counter is above 10
useAlternativeApiAboveTen(rc) == rc > 10

\* videos.ts:553
useAlternativeApi(rc) == rc > 10 /\ rc % 2 = 0

\* videos.ts:589-595: the record the cycle reads, if the response holds one
\* where the cycle looks for it
FindsRecord(useAlt, field) ==
    \/ useAlt /\ field = "history_records"
    \/ field = "history_list"

\* the URL of the first item when only origin.video_url is read
ExtractOriginOnly(il) == il.origin

\* videos.ts:653-671 (and 615-620): the URL of the first item
ExtractUrl(il) ==
    IF il.origin # "" THEN il.origin
    ELSE IF il.play_url # "" THEN il.play_url
    ELSE IF il.download_url # "" THEN il.download_url
    ELSE il.url

\* How generateVideo ends.
VideoReturned(u) ==
    [kind |-> "returned", url |-> u, errcode |-> "", reason |-> "", failCode |-> NoFailCode,
     historyId |-> FALSE]
VideoRaised(code, why, f) ==
    [kind |-> "raised", url |-> "", errcode |-> code, reason |-> why, failCode |-> f,
     historyId |-> TRUE]
VideoPending ==
    [kind |-> "none", url |-> "", errcode |-> "", reason |-> "", failCode |-> NoFailCode,
     historyId |-> FALSE]

\* videos.ts:627-629: failCode === '2038'
IsContentFiltered(f) == f.type = "string" /\ f.text = "2038"

\* videos.ts:626-632: the failure a status of 30 makes
FailureOf(f) ==
    IF IsContentFiltered(f)
    THEN VideoRaised("API_CONTENT_FILTERED", "contentFiltered", NoFailCode)
    ELSE VideoRaised("API_IMAGE_GENERATION_FAILED", "generationFailed", f)

\* videos.ts:545: while (status === 20 && retryCount < maxRetries)
LoopGoesOn(s, rc) == s = 20 /\ rc < maxPollRetries

PollHead(s, rc) == IF LoopGoesOn(s, rc) THEN "poll" ELSE "after"

\* the wait after a missing record without its cap
SoftMissWaitUncapped(rc) == 2000 * (rc + 1)

\* videos.ts:600
SoftMissWait(rc) == IF 2000 * (rc + 1) < 30000 THEN 2000 * (rc + 1) ELSE 30000

\* videos.ts:635
PendingWait(rc) == 2000 * (IF rc + 1 < 5 THEN rc + 1 ELSE 5)

\* videos.ts:642
ErrorWait(rc) == 2000 * (rc + 1)

\* videos.ts:547, 560: the endpoint the cycle queries
QueryShape(rc) ==
    IF useAlternativeApi(rc) THEN "get_history_records" ELSE "get_history_by_ids"

Answer(k, s, f) ==
    [kind |-> k, status |-> s, fail_code |-> f, item_list |-> NoItems, shape |-> "none"]

\* What the query of a cycle that starts with the counter at rc is answered
\* with.
AnswerTo(rc, k, s, f, il) ==
    [kind |-> k, status |-> s, fail_code |-> f, item_list |-> il, shape |-> QueryShape(rc)]

\* The responses whose text holds a video URL of the CDN, and the URL the
\* pattern of videos.ts:566, 579 finds first in the text: one of the video
\* URLs of the first item, or one that stands elsewhere in the response.
TextRecords ==
    { Record(st, NoFailCode, il) :
        st \in {10, 20},
        il \in {NoItems, Item("urlOrigin", "urlPlay", "urlDownload", "urlUrl"),
                Item("", "", "", "urlUrl")} }
TextHits(il) == ({il.origin, il.play_url, il.download_url, il.url} \ {""}) \cup {"urlElsewhere"}

\* The error a failed status query raises into the cycle: request's own
\* error, which carries no historyId.
QueryError ==
    [VideoRaised("REQUEST_FAILED", "queryFailed", NoFailCode) EXCEPT !.historyId = FALSE]

\* videos.ts:639-643: the catch block of a cycle
PollCatch(error) ==
    /\ caught' = error
    /\ retryCount' = retryCount + 1
    /\ lastWait' = ErrorWait(retryCount + 1)

\* A cycle whose status query raises, or returns nothing to read a record
\* from (videos.ts:560, 573, 589, 639-643).
PollQueryFails ==
    /\ op \in PollingOps
    /\ pollPc = "poll"
    /\ queries < QueryCap
    /\ queries' = CountQuery
    /\ PollCatch(QueryError)
    /\ pollPc' = PollHead(status, retryCount + 1)
    /\ lastAnswer' = AnswerTo(retryCount, "error", 0, NoFailCode, NoItems)
    /\ answered' = "mixed"
    /\ UNCHANGED <<op, call, status, failCode, item_list, pollOut, reqVars, upVars, jobVars>>

\* A cycle whose response text holds a video URL of the upstream's CDN: the
\* URL is returned at once (videos.ts:565-570, 576-583).
PollFindsUrlInText ==
    /\ op \in PollingOps
    /\ pollPc = "poll"
    /\ RecordQueryAllowed
    /\ queries' = CountQuery
    /\ \E r \in TextRecords :
         \E u \in TextHits(r.item_list) :
            /\ lastAnswer' = AnswerTo(retryCount,
                                      IF u = "urlElsewhere" THEN "textOther" ELSE "text",
                                      r.status, r.fail_code, r.item_list)
            /\ pollOut' = VideoReturned(u)
    /\ pollPc' = "done"
    /\ answered' = IF answered = "onlyPending" THEN "pendingThenText" ELSE "mixed"
    /\ UNCHANGED <<op, call, status, failCode, item_list, retryCount, lastWait, caught, reqVars, upVars, jobVars>>

\* A cycle whose response has no record where the cycle looks for one
\* (videos.ts:595-604).
PollNoRecord ==
    /\ op \in PollingOps
    /\ pollPc = "poll"
    /\ queries < QueryCap
    /\ queries' = CountQuery
    /\ retryCount' = retryCount + 1
    /\ lastWait' = SoftMissWait(retryCount + 1)
    /\ pollPc' = PollHead(status, retryCount + 1)
    /\ lastAnswer' = AnswerTo(retryCount, "miss", 0, NoFailCode, NoItems)
    /\ answered' = "mixed"
    /\ UNCHANGED <<op, call, status, failCode, item_list, caught, pollOut, reqVars, upVars, jobVars>>

\* A cycle that reads a record (videos.ts:606-638), the catch block
\* included when the record's status is 30.
PollRecord ==
    /\ op \in PollingOps
    /\ pollPc = "poll"
    /\ RecordQueryAllowed
    /\ queries' = CountQuery
    /\ \E r \in Records, field \in RecordFields :
         /\ FindsRecord(useAlternativeApi(retryCount), field)
         /\ status' = r.status
         /\ failCode' = r.fail_code
         /\ item_list' = r.item_list
         /\ lastAnswer' = AnswerTo(retryCount, "record", r.status, r.fail_code, r.item_list)
         /\ answered' = IF answered = "onlyPending" /\ r.status = 20 THEN "onlyPending"
                        ELSE IF answered = "mixed" THEN "mixed" ELSE "onlyRecords"
         /\ IF r.status = 30
            THEN /\ PollCatch(FailureOf(r.fail_code))
                 /\ pollPc' = PollHead(r.status, retryCount + 1)
            ELSE /\ retryCount' = retryCount
                 /\ caught' = caught
                 /\ lastWait' = IF r.status = 20 THEN PendingWait(retryCount) ELSE lastWait
                 /\ pollPc' = PollHead(r.status, retryCount)
    /\ UNCHANGED <<op, call, pollOut, reqVars, upVars, jobVars>>

\* videos.ts:646-674: after the loop
AfterPolling ==
    /\ op \in PollingOps
    /\ pollPc = "after"
    /\ pollOut' =
         IF retryCount >= maxPollRetries /\ status = 20
         THEN VideoRaised("API_IMAGE_GENERATION_FAILED", "timeout", NoFailCode)
         ELSE IF ExtractUrl(item_list) # ""
         THEN VideoReturned(ExtractUrl(item_list))
         ELSE VideoRaised("API_IMAGE_GENERATION_FAILED", "noVideoUrl", NoFailCode)
    /\ pollPc' = "done"
    /\ UNCHANGED <<op, call, status, failCode, item_list, retryCount, queries, lastWait,
                   lastAnswer, answered, caught, reqVars, upVars, jobVars>>

\* videos.ts:535-539: the state the loop starts in
InitPolling ==
    /\ status = 20
    /\ failCode = NoFailCode
    /\ item_list = NoItems
    /\ retryCount = 0
    /\ pollPc = PollHead(20, 0)
    /\ queries = 0
    /\ lastWait = 0
    /\ lastAnswer = Answer("none", 0, NoFailCode)
    /\ answered = "onlyPending"
    /\ caught = VideoPending
    /\ pollOut = VideoPending

IdlePolling ==
    /\ status = 20
    /\ failCode = NoFailCode
    /\ item_list = NoItems
    /\ retryCount = 0
    /\ pollPc = "idle"
    /\ queries = 0
    /\ lastWait = 0
    /\ lastAnswer = Answer("none", 0, NoFailCode)
    /\ answered = "onlyPending"
    /\ caught = VideoPending
    /\ pollOut = VideoPending

\* ------------------------------------------------------------------------
\* The upload pipeline: uploadImageForVideo (videos.ts:123-318) and
\* uploadImageFromUrl, which run the same steps
\* ------------------------------------------------------------------------

UploadOps == {"uploadImageForVideo", "uploadImageFromUrl"}

\* What request("post", "/mweb/v1/get_upload_token") ends with: it raises,
\* returns undefined, or returns an object with some of the credential's
\* fields.
TokenNone ==
    [kind |-> "none", access_key_id |-> FALSE, secret_access_key |-> FALSE,
     session_token |-> FALSE, service_id |-> FALSE]
TokenRaised ==
    [kind |-> "raised", access_key_id |-> FALSE, secret_access_key |-> FALSE,
     session_token |-> FALSE, service_id |-> FALSE]
TokenUndefined ==
    [kind |-> "undefined", access_key_id |-> FALSE, secret_access_key |-> FALSE,
     session_token |-> FALSE, service_id |-> FALSE]

TokenResults ==
    {TokenRaised, TokenUndefined}
    \cup [kind : {"object"}, access_key_id : BOOLEAN, secret_access_key : BOOLEAN,
          session_token : BOOLEAN, service_id : BOOLEAN]

\* What a fetch ends with: it rejects, or resolves with a response that is
\* ok (2xx) or not; "silent" is an upstream that never answers, which
\* leaves the promise of a fetch called without signal pending.
FetchNone == [transport |-> "none", ok |-> FALSE]
FetchResults ==
    [transport : {"rejected", "silent"}, ok : {FALSE}] \cup [transport : {"resolved"}, ok : BOOLEAN]

\* Result.UploadAddress of the apply response
UploadAddresses ==
    {"absent", "noStoreInfos", "noUploadHosts", "emptyStoreInfos", "complete"}

\* The apply response: error is a nested ResponseMetadata.Error.
ApplyNone == [transport |-> "none", ok |-> FALSE, error |-> FALSE, address |-> "absent"]
ApplyResults ==
    [transport : {"rejected", "silent"}, ok : {FALSE}, error : {FALSE}, address : {"absent"}]
    \cup [transport : {"resolved"}, ok : {FALSE}, error : BOOLEAN, address : {"absent"}]
    \cup [transport : {"resolved"}, ok : {TRUE}, error : BOOLEAN, address : UploadAddresses]

\* Result.Results of the commit response: absent, empty, or a first result
\* with its UriStatus and Uri
CommitResultLists ==
    { [shape |-> "absent", UriStatus |-> 0, Uri |-> ""],
      [shape |-> "empty", UriStatus |-> 0, Uri |-> ""],
      [shape |-> "one", UriStatus |-> 2000, Uri |-> "resultUri"],
      [shape |-> "one", UriStatus |-> 2000, Uri |-> ""],
      [shape |-> "one", UriStatus |-> 2001, Uri |-> "resultUri"] }

\* Result.PluginResult[0].ImageUri: no plugin result, one without ImageUri,
\* one with it
PluginResults == {"absent", "noImageUri", "pluginUri"}

CommitNone ==
    [transport |-> "none", ok |-> FALSE, error |-> FALSE,
     results |-> [shape |-> "absent", UriStatus |-> 0, Uri |-> ""], plugin |-> "absent"]
CommitResults ==
    { [transport |-> "rejected", ok |-> FALSE, error |-> FALSE,
       results |-> [shape |-> "absent", UriStatus |-> 0, Uri |-> ""], plugin |-> "absent"],
      [transport |-> "silent", ok |-> FALSE, error |-> FALSE,
       results |-> [shape |-> "absent", UriStatus |-> 0, Uri |-> ""], plugin |-> "absent"],
      [transport |-> "resolved", ok |-> FALSE, error |-> FALSE,
       results |-> [shape |-> "absent", UriStatus |-> 0, Uri |-> ""], plugin |-> "absent"] }
    \cup [transport : {"resolved"}, ok : {TRUE}, error : BOOLEAN,
          results : CommitResultLists, plugin : PluginResults]

UpReturn(uri) == [kind |-> "returned", uri |-> uri, failedStep |-> ""]
UpRaise(step) == [kind |-> "raised", uri |-> "", failedStep |-> step]
UpPending == [kind |-> "none", uri |-> "", failedStep |-> ""]

\* videos.ts:127-136: the token result can be used
TokenUsable(t) ==
    /\ t.kind = "object"
    /\ t.access_key_id
    /\ t.secret_access_key
    /\ t.session_token

\* videos.ts:141-144
FetchPassed(r) == r.transport = "resolved" /\ r.ok

\* the apply checks without the one for ResponseMetadata.Error
ApplyPassedIgnoringError(a) ==
    /\ a.transport = "resolved"
    /\ a.ok
    /\ a.address = "complete"

\* videos.ts:167-210: the apply response passes every check
ApplyPassed(a) ==
    /\ a.transport = "resolved"
    /\ a.ok
    /\ ~a.error
    /\ a.address \notin {"absent", "noStoreInfos", "noUploadHosts"}  \* 199-203
    /\ a.address # "emptyStoreInfos"                                \* 205-206

\* videos.ts:283-301
CommitPassed(c) ==
    /\ c.transport = "resolved"
    /\ c.ok
    /\ ~c.error
    /\ c.results.shape = "one"
    /\ c.results.UriStatus = 2000

\* the URI when the first result's Uri is preferred
CommittedUriOfResult(c) ==
    IF c.results.Uri # "" THEN c.results.Uri ELSE "pluginUri"

\* videos.ts:303-312
CommittedUri(c) ==
    IF c.plugin = "pluginUri" THEN "pluginUri" ELSE c.results.Uri

\* A step ends: the next one follows if it passed, else the pipeline raises
\* (videos.ts:314-317).
UpStep(step, passed, next) ==
    /\ upCalls' = Append(upCalls, step)
    /\ upPc' = IF passed THEN next ELSE "done"
    /\ upOut' = IF passed THEN upOut ELSE UpRaise(step)

\* await fetch(url, {method, headers, body}): no signal and no timer, so
\* the step ends only when the upstream answers or the connection fails
\* (videos.ts:141, 167, 214, 260).
FetchStep(step, r, passed, next) ==
    IF r.transport = "silent"
    THEN /\ upCalls' = Append(upCalls, step)
         /\ upPc' = "waiting"
         /\ upOut' = upOut
    ELSE UpStep(step, passed, next)

\* videos.ts:127-139
AcquireToken ==
    /\ op \in UploadOps
    /\ upPc = "token"
    /\ \E t \in TokenResults :
         /\ tokenResult' = t
         /\ UpStep("token", TokenUsable(t), "download")
    /\ UNCHANGED <<op, call, imageSize, imageResponse, applyResponse, uploadResponse, commitResponse,
                   reqVars, pollVars, jobVars>>

\* videos.ts:141-150
DownloadImage ==
    /\ op \in UploadOps
    /\ upPc = "download"
    /\ \E r \in FetchResults :
         /\ imageResponse' = r
         /\ FetchStep("download", r, FetchPassed(r), "apply")
    /\ UNCHANGED <<op, call, imageSize, tokenResult, applyResponse, uploadResponse, commitResponse,
                   reqVars, pollVars, jobVars>>

\* videos.ts:152-212
ApplyImageUpload ==
    /\ op \in UploadOps
    /\ upPc = "apply"
    /\ \E a \in ApplyResults :
         /\ applyResponse' = a
         /\ FetchStep("apply", a, ApplyPassed(a), "upload")
    /\ UNCHANGED <<op, call, imageSize, tokenResult, imageResponse, uploadResponse, commitResponse,
                   reqVars, pollVars, jobVars>>

\* videos.ts:214-240
UploadBytes ==
    /\ op \in UploadOps
    /\ upPc = "upload"
    /\ \E r \in FetchResults :
         /\ uploadResponse' = r
         /\ FetchStep("upload", r, FetchPassed(r), "commit")
    /\ UNCHANGED <<op, call, imageSize, tokenResult, imageResponse, applyResponse, commitResponse,
                   reqVars, pollVars, jobVars>>

\* videos.ts:242-312
CommitImageUpload ==
    /\ op \in UploadOps
    /\ upPc = "commit"
    /\ \E c \in CommitResults :
         /\ commitResponse' = c
         /\ upCalls' = Append(upCalls, "commit")
         /\ upPc' = IF c.transport = "silent" THEN "waiting" ELSE "done"
         /\ upOut' = IF c.transport = "silent" THEN upOut
                     ELSE IF CommitPassed(c) THEN UpReturn(CommittedUri(c))
                     ELSE UpRaise("commit")
    /\ UNCHANGED <<op, call, imageSize, tokenResult, imageResponse, applyResponse, uploadResponse,
                   reqVars, pollVars, jobVars>>

\* The remote file's reported size, within FILE_MAX_SIZE (core.ts:57) or
\* beyond it.
ImageSizes == {"within", "exceeds"}

InitUpload ==
    /\ imageSize \in ImageSizes
    /\ upPc = "token"
    /\ upCalls = <<>>
    /\ tokenResult = TokenNone
    /\ imageResponse = FetchNone
    /\ applyResponse = ApplyNone
    /\ uploadResponse = FetchNone
    /\ commitResponse = CommitNone
    /\ upOut = UpPending

IdleUpload ==
    /\ imageSize = "within"
    /\ upPc = "idle"
    /\ upCalls = <<>>
    /\ tokenResult = TokenNone
    /\ imageResponse = FetchNone
    /\ applyResponse = ApplyNone
    /\ uploadResponse = FetchNone
    /\ commitResponse = CommitNone
    /\ upOut = UpPending

\* ------------------------------------------------------------------------
\* generateVideo: the upload of the frames and the submission of the job
\* (videos.ts:351-533)
\* ------------------------------------------------------------------------

\* A path of filePaths; "" is an entry that is empty.
FramePaths == {"", "first.png", "second.png"}

\* The longest filePaths of the model.
MaxFilePaths == 3

FilePathLists ==
    UNION { [1..n -> FramePaths] : n \in 0..MaxFilePaths }

\* The image URI the upload of a path returns when it succeeds.
UriOf(path) == <<"uri", path>>
NoUri == <<>>

\* What uploadImageForVideo ends with for a path: it raises, it returns no
\* image URI, or it returns the URI.
FrameUploads(path) ==
    { [kind |-> "raised", uri |-> NoUri],
      [kind |-> "returned", uri |-> NoUri],
      [kind |-> "returned", uri |-> UriOf(path)] }

FrameReturn(v) == [kind |-> "returned", errcode |-> "", reason |-> "", historyId |-> v]
FrameRaise(code, why) == [kind |-> "raised", errcode |-> code, reason |-> why, historyId |-> FALSE]
FramePending == [kind |-> "none", errcode |-> "", reason |-> "", historyId |-> FALSE]

\* the catch block raising for every frame
IsFatalIndexAlways(i) == TRUE

\* videos.ts:378: if (i === 0), i counted from 1 here
IsFatalIndex(i) == i = 1

\* videos.ts:358 and 354: the loop goes on, or the code after it follows
FrameHead(paths, i) ==
    IF i <= Len(paths) THEN "uploads" ELSE "frames"

\* videos.ts:358-385: one round of the for loop
UploadFrame ==
    /\ op = "generateVideoFrames"
    /\ framePc = "uploads"
    /\ LET path == filePaths[frameIndex]
       IN  IF path = ""
           THEN \* 360-363: an empty path is skipped
                /\ frameIndex' = frameIndex + 1
                /\ framePc' = FrameHead(filePaths, frameIndex + 1)
                /\ UNCHANGED <<uploadIDs, frameLog, frameOut>>
           ELSE \E r \in FrameUploads(path) :
                /\ frameLog' = Append(frameLog, [index |-> frameIndex, kind |-> r.kind, uri |-> r.uri])
                /\ IF r.kind = "raised"
                   THEN IF IsFatalIndex(frameIndex)
                        THEN /\ frameOut' = FrameRaise("API_REQUEST_FAILED", "firstFrameUploadFailed")
                             /\ framePc' = "done"
                             /\ UNCHANGED <<uploadIDs, frameIndex>>
                        ELSE /\ frameIndex' = frameIndex + 1
                             /\ framePc' = FrameHead(filePaths, frameIndex + 1)
                             /\ UNCHANGED <<uploadIDs, frameOut>>
                   ELSE /\ uploadIDs' = IF r.uri # NoUri THEN Append(uploadIDs, r.uri) ELSE uploadIDs
                        /\ frameIndex' = frameIndex + 1
                        /\ framePc' = FrameHead(filePaths, frameIndex + 1)
                        /\ frameOut' = frameOut
    /\ UNCHANGED <<op, call, filePaths, first_frame_image, end_frame_image, submitted,
                   reqVars, pollVars, upVars, streamVars, ccVars, icVars, wfVars>>

\* videos.ts:387-429: after the loop
SetFrames ==
    /\ op = "generateVideoFrames"
    /\ framePc = "frames"
    /\ IF Len(uploadIDs) = 0
       THEN /\ frameOut' = FrameRaise("API_REQUEST_FAILED", "allUploadsFailed")
            /\ framePc' = "done"
            /\ UNCHANGED <<first_frame_image, end_frame_image>>
       ELSE /\ first_frame_image' = uploadIDs[1]
            /\ end_frame_image' = IF Len(uploadIDs) >= 2 THEN uploadIDs[2] ELSE NoUri
            /\ framePc' = "submit"
            /\ frameOut' = frameOut
    /\ UNCHANGED <<op, call, filePaths, frameIndex, uploadIDs, frameLog, submitted,
                   reqVars, pollVars, upVars, streamVars, ccVars, icVars, wfVars>>

\* What the submission's request ends with: it raises, or returns data
\* without aigc_data, with an aigc_data that has no history_record_id, or
\* with the history id.
SubmitResults == {"raised", "noAigcData", "noHistoryId", "historyId"}

\* videos.ts:444-533: the job is submitted
SubmitJob ==
    /\ op = "generateVideoFrames"
    /\ framePc = "submit"
    /\ submitted' = Append(submitted, [first_frame_image |-> first_frame_image,
                                       end_frame_image |-> end_frame_image])
    /\ \E r \in SubmitResults :
         frameOut' = IF r = "raised" THEN FrameRaise("API_REQUEST_FAILED", "submitFailed")
                     ELSE IF r = "noAigcData"       \* 531: aigc_data.history_record_id
                     THEN FrameRaise("TypeError", "noAigcData")
                     ELSE IF r = "noHistoryId"      \* 532-533
                     THEN FrameRaise("API_IMAGE_GENERATION_FAILED", "noHistoryId")
                     ELSE FrameReturn(TRUE)
    /\ framePc' = "done"
    /\ UNCHANGED <<op, call, filePaths, frameIndex, uploadIDs, frameLog, first_frame_image,
                   end_frame_image, reqVars, pollVars, upVars, streamVars, ccVars, icVars, wfVars>>

\* videos.ts:351-354: without filePaths the job is submitted without frames
InitFrames ==
    /\ filePaths \in FilePathLists
    /\ frameIndex = 1
    /\ uploadIDs = <<>>
    /\ frameLog = <<>>
    /\ first_frame_image = NoUri
    /\ end_frame_image = NoUri
    /\ framePc = IF Len(filePaths) > 0 THEN FrameHead(filePaths, 1) ELSE "submit"
    /\ submitted = <<>>
    /\ frameOut = FramePending

IdleFrames ==
    /\ filePaths = <<>>
    /\ frameIndex = 1
    /\ uploadIDs = <<>>
    /\ frameLog = <<>>
    /\ first_frame_image = NoUri
    /\ end_frame_image = NoUri
    /\ framePc = "idle"
    /\ submitted = <<>>
    /\ frameOut = FramePending

\* ------------------------------------------------------------------------
\* createCompletionStream for a video model (part_000:172-509): the stream,
\* its two timers, and the generateVideo it starts
\* ------------------------------------------------------------------------

\* The progress dots a behaviour writes at most.
MaxDots == 2

Dots == Len(SelectSeq(chunks, LAMBDA c : c = "dot"))

\* part_000:301 and 367: !stream.destroyed && stream.writable
IsWritable == stream = "open"

\* part_000:261-265: the caller closes the stream; the handler of 'close'
\* clears the two timers.
CloseStream ==
    /\ op = "createCompletionStream"
    /\ stream = "open"
    /\ stream' = "destroyed"
    /\ progressInterval' = "cleared"
    /\ timeoutId' = IF timeoutId = "pending" THEN "cleared" ELSE timeoutId
    /\ UNCHANGED <<op, call, chunks, videoPromise, reqVars, pollVars, upVars, frameVars, ccVars, icVars, wfVars>>

\* part_000:212-233: the interval fires
ProgressTick ==
    /\ op = "createCompletionStream"
    /\ progressInterval = "set"
    /\ Dots < MaxDots
    /\ IF stream = "destroyed"
       THEN progressInterval' = "cleared" /\ chunks' = chunks
       ELSE progressInterval' = progressInterval /\ chunks' = Append(chunks, "dot")
    /\ UNCHANGED <<op, call, stream, timeoutId, videoPromise, reqVars, pollVars, upVars, frameVars, ccVars, icVars, wfVars>>

\* part_000:235-259: the 2-minute timeout fires
TimeoutFires ==
    /\ op = "createCompletionStream"
    /\ timeoutId = "pending"
    /\ timeoutId' = "fired"
    /\ progressInterval' = "cleared"
    /\ chunks' = IF stream # "destroyed" THEN Append(chunks, "takingLonger") ELSE chunks
    /\ UNCHANGED <<op, call, stream, videoPromise, reqVars, pollVars, upVars, frameVars, ccVars, icVars, wfVars>>

\* part_000:295-391: generateVideo ended; .then or .catch clears the timers
\* and, if the stream can be written, writes the result and ends it.
VideoSettled ==
    /\ op = "createCompletionStream"
    /\ videoPromise = "pending"
    /\ pollPc = "done"
    /\ videoPromise' = "settled"
    /\ progressInterval' = "cleared"
    /\ timeoutId' = IF timeoutId = "pending" THEN "cleared" ELSE timeoutId
    /\ IF IsWritable
       THEN /\ chunks' = chunks \o (IF pollOut.kind = "returned"
                                    THEN <<"video", "stop", "[DONE]">>   \* 302-341
                                    ELSE <<"issue", "[DONE]">>)          \* 368-387
            /\ stream' = "ended"
       ELSE UNCHANGED <<chunks, stream>>
    /\ UNCHANGED <<op, call, reqVars, pollVars, upVars, frameVars, ccVars, icVars, wfVars>>

\* part_000:182-294: the stream is open, the timers are set, generateVideo
\* is started
InitStream ==
    /\ stream = "open"
    /\ progressInterval = "set"
    /\ timeoutId = "pending"
    /\ chunks = <<"inProgress", "started">>
    /\ videoPromise = "pending"

IdleStream ==
    /\ stream = "none"
    /\ progressInterval = "none"
    /\ timeoutId = "none"
    /\ chunks = <<>>
    /\ videoPromise = "none"

\* ------------------------------------------------------------------------
\* createCompletion (part_000:47-162)
\* ------------------------------------------------------------------------

\* What a run of generateVideo or generateImages ends with: it returns the
\* media, raises an APIException, or raises another error.
GenReturned == [kind |-> "returned", api |-> FALSE, errcode |-> ""]
GenRaised(isApi, code) == [kind |-> "raised", api |-> isApi, errcode |-> code]

\* The APIExceptions of the generation (videos.ts:380, 391, 533, 627-629;
\* part_000:1003-1008, 1347-1350)
GenErrcodes == {"API_CONTENT_FILTERED", "API_REQUEST_FAILED", "API_IMAGE_GENERATION_FAILED"}

GenOutcomes ==
    {GenReturned, GenRaised(FALSE, "Error")} \cup { GenRaised(TRUE, c) : c \in GenErrcodes }

\* part_000:54-55
EmptyMessages == GenRaised(TRUE, "API_REQUEST_PARAMS_INVALID")

CompletionReturn(what) == [kind |-> "returned", content |-> what, error |-> GenReturned]
CompletionRaise(err) == [kind |-> "raised", content |-> "", error |-> err]
CompletionPending == [kind |-> "none", content |-> "", error |-> GenReturned]

\* part_000:152: if (retryCount < RETRY_CONFIG.MAX_RETRY_COUNT)
RetriesRejection(err, rc) == rc < MAX_RETRY_COUNT

\* part_000:151-161: the handler of .catch
CompletionCatch(err) ==
    IF RetriesRejection(err, ccRetryCount)
    THEN ccPc' = "delay" /\ ccOut' = ccOut
    ELSE ccPc' = "done" /\ ccOut' = CompletionRaise(err)

\* part_000:54-55: no message
RejectEmptyMessages ==
    /\ op = "createCompletion"
    /\ ccPc = "run"
    /\ messages = "empty"
    /\ CompletionCatch(EmptyMessages)
    /\ UNCHANGED <<op, call, messages, ccModel, ccRetryCount, ccRuns,
                   reqVars, pollVars, upVars, frameVars, streamVars, icVars, wfVars>>

\* part_000:61-150: the generation runs
RunGeneration ==
    /\ op = "createCompletion"
    /\ ccPc = "run"
    /\ messages = "some"
    /\ \E g \in GenOutcomes :
         /\ ccRuns' = Append(ccRuns, g)
         /\ IF g.kind = "returned"
            THEN ccPc' = "done" /\ ccOut' = CompletionReturn("media")
            ELSE IF ccModel = "video" /\ ~g.api
            THEN \* 94-117: the failure is returned as the content
                 ccPc' = "done" /\ ccOut' = CompletionReturn("failureText")
            ELSE CompletionCatch(g)
    /\ UNCHANGED <<op, call, messages, ccModel, ccRetryCount,
                   reqVars, pollVars, upVars, frameVars, streamVars, icVars, wfVars>>

\* part_000:155-158: the wait, then createCompletion(..., retryCount + 1)
CompletionRetry ==
    /\ op = "createCompletion"
    /\ ccPc = "delay"
    /\ ccRetryCount' = ccRetryCount + 1
    /\ ccPc' = "run"
    /\ UNCHANGED <<op, call, messages, ccModel, ccRuns, ccOut,
                   reqVars, pollVars, upVars, frameVars, streamVars, icVars, wfVars>>

InitCompletion ==
    /\ messages \in {"empty", "some"}
    /\ ccModel \in {"video", "image"}
    /\ ccRetryCount = 0
    /\ ccRuns = <<>>
    /\ ccPc = "run"
    /\ ccOut = CompletionPending

IdleCompletion ==
    /\ messages = "some"
    /\ ccModel = "image"
    /\ ccRetryCount = 0
    /\ ccRuns = <<>>
    /\ ccPc = "idle"
    /\ ccOut = CompletionPending

\* ------------------------------------------------------------------------
\* generateImageComposition: the polling loop (part_000:958-1018)
\* ------------------------------------------------------------------------

\* const maxPollCount = 600 (part_000:960)
maxPollCount == 600

\* item_list of a record: empty, items that hold an image URL, items that
\* hold none
ImageItems == {"none", "urls", "noUrls"}

ImageAnswer(k, st, f, its) == [kind |-> k, status |-> st, fail_code |-> f, items |-> its]

\* What a status query of the loop is answered with: request raises, the
\* response has no record for the history id, or it has one.
ImageRecords ==
    { ImageAnswer("record", st, NoFailCode, its) : st \in StatusCodes \ {30}, its \in ImageItems }
    \cup { ImageAnswer("record", 30, f, its) : f \in FailCodes, its \in {"none", "urls"} }

ImageAnswers ==
    {ImageAnswer("raised", 0, NoFailCode, "none"), ImageAnswer("miss", 0, NoFailCode, "none")}
    \cup ImageRecords

ImagesReturned(what) ==
    [kind |-> "returned", images |-> what, errcode |-> "", reason |-> "", historyId |-> FALSE]
\* the image operations never set historyId on what they raise
\* (part_000:977-978, 1003-1008)
ImagesRaised(code, why) ==
    [kind |-> "raised", images |-> "", errcode |-> code, reason |-> why, historyId |-> FALSE]
ImagesPending ==
    [kind |-> "none", images |-> "", errcode |-> "", reason |-> "", historyId |-> FALSE]

\* the loop leaving at a status of 10 or 50 as well
BreaksWhenComplete(st, its) == st = 30 \/ its # "none" \/ st \in {10, 50}

\* part_000:984-992: the two breaks of the loop
BreaksLoop(st, its) == st = 30 \/ its # "none"

\* part_000:962: while (pollCount < maxPollCount)
CompositionHead(n) == IF n < maxPollCount THEN "poll" ELSE "after"

\* part_000:962-997: one cycle of the loop
CompositionPoll ==
    /\ op = "generateImageComposition"
    /\ icPc = "poll"
    /\ pollCount' = pollCount + 1
    /\ \E a \in ImageAnswers :
         /\ icLast' = a
         /\ IF a.kind = "raised"
            THEN /\ icOut' = ImagesRaised("REQUEST_FAILED", "queryFailed")
                 /\ icPc' = "done"
                 /\ UNCHANGED <<icStatus, icFailCode, icItems>>
            ELSE IF a.kind = "miss"
            THEN \* 977-978
                 /\ icOut' = ImagesRaised("API_IMAGE_GENERATION_FAILED", "recordMissing")
                 /\ icPc' = "done"
                 /\ UNCHANGED <<icStatus, icFailCode, icItems>>
            ELSE /\ icStatus' = a.status
                 /\ icFailCode' = a.fail_code
                 /\ icItems' = a.items
                 /\ icOut' = icOut
                 /\ icPc' = IF BreaksLoop(a.status, a.items) THEN "after"
                            ELSE CompositionHead(pollCount + 1)
    /\ UNCHANGED <<op, call, reqVars, pollVars, upVars, frameVars, streamVars, ccVars, wfVars>>

\* part_000:999-1017: after the loop
CompositionAfter ==
    /\ op = "generateImageComposition"
    /\ icPc = "after"
    /\ icOut' =
         IF icStatus = 30
         THEN IF IsContentFiltered(icFailCode)
              THEN ImagesRaised("API_CONTENT_FILTERED", "contentFiltered")
              ELSE ImagesRaised("API_IMAGE_GENERATION_FAILED", "generationFailed")
         ELSE ImagesReturned(IF icItems = "urls" THEN "urls" ELSE "empty")
    /\ icPc' = "done"
    /\ UNCHANGED <<op, call, icStatus, icFailCode, icItems, pollCount, icLast,
                   reqVars, pollVars, upVars, frameVars, streamVars, ccVars, wfVars>>

InitComposition ==
    /\ icStatus = 20
    /\ icFailCode = NoFailCode
    /\ icItems = "none"
    /\ pollCount = 0
    /\ icPc = CompositionHead(0)
    /\ icLast = ImageAnswer("none", 0, NoFailCode, "none")
    /\ icOut = ImagesPending

IdleComposition ==
    /\ icStatus = 20
    /\ icFailCode = NoFailCode
    /\ icItems = "none"
    /\ pollCount = 0
    /\ icPc = "idle"
    /\ icLast = ImageAnswer("none", 0, NoFailCode, "none")
    /\ icOut = ImagesPending

\* ------------------------------------------------------------------------
\* waitForImageGeneration (part_000:1317-1376)
\* ------------------------------------------------------------------------

\* The largest options.maxPollCount of the model (the default is 600).
MaxPollCountOption == 3

\* history.images of a record: none, fewer than expectedImageCount, or
\* that many
HistoryImages == {"none", "some", "expected"}

HistoryAnswers ==
    {ImageAnswer("raised", 0, NoFailCode, "none"), ImageAnswer("miss", 0, NoFailCode, "none")}
    \cup { ImageAnswer("record", st, NoFailCode, its) : st \in StatusCodes \ {30}, its \in HistoryImages }
    \cup { ImageAnswer("record", 30, f, its) : f \in FailCodes, its \in {"none", "some"} }

\* part_000:1354
IsGenerationComplete(h) == h.status = 50 \/ h.items = "expected"

\* the loop going on while pollCount <= maxPollCount
WaitHeadOneMore(n, max) == IF n <= max THEN "poll" ELSE "final"

\* part_000:1332: while (pollCount < maxPollCount)
WaitHead(n, max) == IF n < max THEN "poll" ELSE "final"

\* part_000:1332-1363: one cycle of the loop
WaitPoll ==
    /\ op = "waitForImageGeneration"
    /\ wfPc = "poll"
    /\ wfPollCount' = wfPollCount + 1
    /\ \E h \in HistoryAnswers :
         /\ wfLast' = h
         /\ IF h.kind = "raised"
            THEN wfOut' = ImagesRaised("REQUEST_FAILED", "queryFailed") /\ wfPc' = "done"
            ELSE IF h.kind = "miss"
            THEN wfOut' = wfOut /\ wfPc' = WaitHead(wfPollCount + 1, wfMaxPollCount)
            ELSE IF h.status = 30
            THEN /\ wfPc' = "done"
                 /\ wfOut' = IF IsContentFiltered(h.fail_code)
                             THEN ImagesRaised("API_CONTENT_FILTERED", "contentFiltered")
                             ELSE ImagesRaised("API_IMAGE_GENERATION_FAILED", "generationFailed")
            ELSE IF IsGenerationComplete(h)
            THEN wfOut' = ImagesReturned(h.items) /\ wfPc' = "done"
            ELSE wfOut' = wfOut /\ wfPc' = WaitHead(wfPollCount + 1, wfMaxPollCount)
    /\ UNCHANGED <<op, call, wfMaxPollCount, reqVars, pollVars, upVars, frameVars, streamVars,
                   ccVars, icVars>>

\* part_000:1365-1375: after the loop the history is read once more
WaitFinal ==
    /\ op = "waitForImageGeneration"
    /\ wfPc = "final"
    /\ \E h \in HistoryAnswers :
         /\ wfLast' = h
         /\ wfOut' = IF h.kind = "raised" THEN ImagesRaised("REQUEST_FAILED", "queryFailed")
                     ELSE IF h.kind = "record" /\ h.items # "none" THEN ImagesReturned(h.items)
                     ELSE ImagesRaised("API_IMAGE_GENERATION_FAILED", "timeout")
    /\ wfPc' = "done"
    /\ UNCHANGED <<op, call, wfMaxPollCount, wfPollCount, reqVars, pollVars, upVars, frameVars,
                   streamVars, ccVars, icVars>>

InitWait ==
    /\ wfMaxPollCount \in 1..MaxPollCountOption
    /\ wfPollCount = 0
    /\ wfPc = WaitHead(0, wfMaxPollCount)
    /\ wfLast = ImageAnswer("none", 0, NoFailCode, "none")
    /\ wfOut = ImagesPending

IdleWait ==
    /\ wfMaxPollCount = 1
    /\ wfPollCount = 0
    /\ wfPc = "idle"
    /\ wfLast = ImageAnswer("none", 0, NoFailCode, "none")
    /\ wfOut = ImagesPending

\* ------------------------------------------------------------------------
\* The functions of a single call: call holds the argument and, once the
\* function has been applied, its result
\* ------------------------------------------------------------------------

NotCalled == [pc |-> "idle", in |-> <<>>, out |-> <<>>]
Calling(x) == [pc |-> "call", in |-> x, out |-> <<>>]
Called(x, y) == [pc |-> "done", in |-> x, out |-> y]

IdleCall == call = NotCalled

\* ---- video_aspect_ratio of generateVideo's payload (videos.ts:440-442)

\* videos.ts:440
RECURSIVE gcd(_, _)
gcd(a, b) == IF b = 0 THEN a ELSE gcd(b, a % b)

\* the ratio without the division by the divisor
aspectRatioUnreduced(width, height) == <<width, ":", height>>

\* videos.ts:441-442: `${width / divisor}:${height / divisor}`; the divisor
\* divides both, so the two quotients are integers
aspectRatio(width, height) ==
    LET divisor == gcd(width, height)
    IN  <<width \div divisor, ":", height \div divisor>>

\* The widths and heights generateVideo is called with.
VideoSizes == {1, 2, 3, 4, 6, 9, 16, 21, 720, 1024, 1280, 1920}

ComputeAspectRatio ==
    /\ op = "aspectRatio"
    /\ call.pc = "call"
    /\ call' = Called(call.in, aspectRatio(call.in.width, call.in.height))
    /\ UNCHANGED <<op, reqVars, pollVars, upVars, jobVars>>

\* ---- createSignature (videos.ts:19-101): the canonical query string, the
\* payload hash and the signed headers

\* A string is the sequence of its characters; a < b of two strings
\* compares their code units.
CodeUnit(c) == CASE c = "a" -> 97 [] c = "b" -> 98 [] OTHER -> 0

RECURSIVE StrLess(_, _)
StrLess(s, t) ==
    IF t = <<>> THEN FALSE
    ELSE IF s = <<>> THEN TRUE
    ELSE IF CodeUnit(s[1]) # CodeUnit(t[1]) THEN CodeUnit(s[1]) < CodeUnit(t[1])
    ELSE StrLess(Tail(s), Tail(t))

\* a parameter put before the parameters of the same name
InsertParamBeforeEqual(sorted, p) ==
    LET n == Cardinality({i \in 1..Len(sorted) : StrLess(sorted[i][1], p[1])})
    IN  SubSeq(sorted, 1, n) \o <<p>> \o SubSeq(sorted, n + 1, Len(sorted))

\* videos.ts:43-47: Array.prototype.sort is stable; a parameter comes after
\* every parameter whose name is not greater than its own
InsertParam(sorted, p) ==
    LET n == Cardinality({i \in 1..Len(sorted) : ~StrLess(p[1], sorted[i][1])})
    IN  SubSeq(sorted, 1, n) \o <<p>> \o SubSeq(sorted, n + 1, Len(sorted))

RECURSIVE SortParams(_)
SortParams(ps) ==
    IF ps = <<>> THEN <<>>
    ELSE InsertParam(SortParams(SubSeq(ps, 1, Len(ps) - 1)), ps[Len(ps)])

\* videos.ts:49-51: .map(([key, value]) => `${key}=${value}`).join('&')
RECURSIVE JoinParams(_)
JoinParams(ps) ==
    IF ps = <<>> THEN <<>>
    ELSE IF Len(ps) = 1 THEN <<ps[1][1], "=", ps[1][2]>>
    ELSE <<ps[1][1], "=", ps[1][2], "&">> \o JoinParams(Tail(ps))

\* videos.ts:37-51
canonicalQueryString(queryParams) == JoinParams(SortParams(queryParams))

\* method.toUpperCase()
ToUpperCase(method) ==
    CASE method = "post" -> "POST" [] method = "get" -> "GET" [] OTHER -> method

\* crypto.createHash('sha256').update(text).digest('hex')
Sha256(text) == <<"sha256", text>>

\* the payload hashed whatever the method
HashesPayloadAnyMethod(method, payload) == payload # ""

\* videos.ts:62: method.toUpperCase() === 'POST' && payload
HashesPayload(method, payload) == ToUpperCase(method) = "POST" /\ payload # ""

\* videos.ts:61-65
payloadHash(method, payload) ==
    IF HashesPayload(method, payload) THEN Sha256(payload) ELSE Sha256("")

\* videos.ts:53-65: the keys of headersToSign, in the order they are set
headersToSign(method, payload, sessionToken) ==
    <<"x-amz-date">>
    \o (IF sessionToken \notin {"undefined", ""} THEN <<"x-amz-security-token">> ELSE <<>>)
    \o (IF HashesPayload(method, payload) THEN <<"x-amz-content-sha256">> ELSE <<>>)

\* The three names in the order of their code units: the order sort() puts
\* them in.
HeaderNamesAscending == <<"x-amz-content-sha256", "x-amz-date", "x-amz-security-token">>

\* videos.ts:67-70: the lowercased keys, sorted
signedHeaders(keys) ==
    SelectSeq(HeaderNamesAscending, LAMBDA h : \E i \in 1..Len(keys) : keys[i] = h)

createSignature(in) ==
    [canonicalQueryString |-> canonicalQueryString(in.queryParams),
     payloadHash |-> payloadHash(in.method, in.payload),
     signedHeaders |-> signedHeaders(headersToSign(in.method, in.payload, in.sessionToken))]

\* The most query parameters of a signed URL in the model.
MaxParams == 3

\* The parameters of the URL: names "a", "b" and "ab".
QueryParams == {<<"a">>, <<"b">>, <<"a", "b">>} \X {"1", "2"}
QueryParamLists == UNION { [1..n -> QueryParams] : n \in 0..MaxParams }

SignatureInputs ==
    [method : {"POST", "post", "GET", "PUT"}, payload : {"", "body"},
     sessionToken : {"undefined", "", "token"}, queryParams : QueryParamLists]

CreateSignature ==
    /\ op = "createSignature"
    /\ call.pc = "call"
    /\ call' = Called(call.in, createSignature(call.in))
    /\ UNCHANGED <<op, reqVars, pollVars, upVars, jobVars>>

\* ---- getImageRatio (part_000:526-540)

\* common.ts:77-86
ASPECT_RATIOS ==
    { [name |-> "1:1", width |-> 2048, height |-> 2048, ratio |-> 1],
      [name |-> "4:3", width |-> 2304, height |-> 1728, ratio |-> 4],
      [name |-> "3:4", width |-> 1728, height |-> 2304, ratio |-> 2],
      [name |-> "16:9", width |-> 2560, height |-> 1440, ratio |-> 3],
      [name |-> "9:16", width |-> 1440, height |-> 2560, ratio |-> 5],
      [name |-> "3:2", width |-> 2496, height |-> 1664, ratio |-> 7],
      [name |-> "2:3", width |-> 1664, height |-> 2496, ratio |-> 6],
      [name |-> "21:9", width |-> 3024, height |-> 1296, ratio |-> 8] }

\* Math.abs(width / height - p / q) < 0.1, in integers
IsNear(width, height, p, q) ==
    LET d == width * q - p * height
    IN  10 * (IF d < 0 THEN -d ELSE d) < height * q

getImageRatio(width, height) ==
    IF IsNear(width, height, 1, 1) THEN 1           \* 529
    ELSE IF IsNear(width, height, 4, 3) THEN 4      \* 530
    ELSE IF IsNear(width, height, 3, 4) THEN 2      \* 531
    ELSE IF IsNear(width, height, 16, 9) THEN 3     \* 532
    ELSE IF IsNear(width, height, 9, 16) THEN 5     \* 533
    ELSE IF IsNear(width, height, 3, 2) THEN 7      \* 534
    ELSE IF IsNear(width, height, 2, 3) THEN 6      \* 535
    ELSE IF IsNear(width, height, 21, 9) THEN 8     \* 536
    ELSE 1                                          \* 539

\* The sizes getImageRatio is called with: those of the table and others.
RatioSizes ==
    { [width |-> e.width, height |-> e.height] : e \in ASPECT_RATIOS }
    \cup [width : {512, 1000, 1024, 1330, 2048}, height : {512, 768, 1024, 1536, 2000}]

GetImageRatio ==
    /\ op = "getImageRatio"
    /\ call.pc = "call"
    /\ call' = Called(call.in, getImageRatio(call.in.width, call.in.height))
    /\ UNCHANGED <<op, reqVars, pollVars, upVars, jobVars>>

\* ---- the upstream model of a request (part_000:19-27, 57-74, 118-128;
\* videos.ts:14-16; part_000:541-543)

\* common.ts:24-25
DEFAULT_IMAGE_MODEL == "dreamina-4.5"
DEFAULT_VIDEO_MODEL == "dreamina-video-3.0"

\* common.ts:31-42, three of its ten entries
IMAGE_MODEL_MAP ==
    [n \in {"dreamina-4.5", "dreamina-4.0", "dreamina-xl-pro"} |->
        CASE n = "dreamina-4.5" -> "high_aes_general_v40l"
          [] n = "dreamina-4.0" -> "high_aes_general_v40"
          [] n = "dreamina-xl-pro" -> "text2img_xl_sft"]

\* common.ts:45-50
VIDEO_MODEL_MAP ==
    [n \in {"dreamina-video-3.0-pro", "dreamina-video-3.0", "dreamina-video-2.0",
            "dreamina-video-2.0-pro"} |->
        CASE n = "dreamina-video-3.0-pro" -> "dreamina_ic_generate_video_model_vgfm_3.0_pro"
          [] n = "dreamina-video-3.0" -> "dreamina_ic_generate_video_model_vgfm_3.0"
          [] n = "dreamina-video-2.0" -> "dreamina_ic_generate_video_model_vgfm_lite"
          [] n = "dreamina-video-2.0-pro" -> "dreamina_ic_generate_video_model_vgfm1.0"]

\* A model string is given by its parts between ':': the name alone, or the
\* name and a size.
ModelNames == DOMAIN IMAGE_MODEL_MAP \cup DOMAIN VIDEO_MODEL_MAP \cup {"dreamina-9.9"}
ModelStrings == { <<n>> : n \in ModelNames } \cup { <<n, s>> : n \in ModelNames, s \in {"1280x720", "1024x1024"} }

\* map[model] || map[DEFAULT]: a string with a ':' in it is no key of the map
LookupModel(map, model, default) ==
    IF Len(model) = 1 /\ model[1] \in DOMAIN map THEN map[model[1]] ELSE map[default]

\* part_000:20 and 23: model.split(":")[0]
parseModel(model) == <<model[1]>>

\* part_000:35-37: model.startsWith("dreamina-video"); the names of
\* ModelNames that start so are the keys of VIDEO_MODEL_MAP
isVideoModel(model) == model[1] \in DOMAIN VIDEO_MODEL_MAP

\* videos.ts:14-16, called at videos.ts:339 with the model string
\* createCompletion was given (part_000:65-66, 289-290)
getModel(model) == LookupModel(VIDEO_MODEL_MAP, model, DEFAULT_VIDEO_MODEL)

\* part_000:541-543, called with parseModel's name (part_000:120-121, 411-412)
getImageModel(model) == LookupModel(IMAGE_MODEL_MAP, parseModel(model), DEFAULT_IMAGE_MODEL)

SelectModel ==
    /\ op = "createCompletionModel"
    /\ call.pc = "call"
    /\ call' = Called(call.in, IF isVideoModel(call.in) THEN getModel(call.in)
                               ELSE getImageModel(call.in))
    /\ UNCHANGED <<op, reqVars, pollVars, upVars, jobVars>>

\* ---- getTokenLiveStatus (core.ts:488-505)

\* The data of the account-info envelope: absent, or an object with or
\* without a user_id.
AccountData == {"none", "noUserId", "userId"}

AccountBodies ==
    {NoBody}
    \cup { Envelope(r, <<"success">>, d) :
             r \in {RetUndefined, RetString(<<"0">>), RetString(<<"1", "0", "1", "5">>)},
             d \in AccountData }

\* What the account-info call is answered with, and what request ends with
\* for it (core.ts:279, 305).
AccountCalls ==
    { [answer |-> Response(200, b), result |-> checkResult(Response(200, b))] : b \in AccountBodies }
    \cup { [answer |-> Failure(e), result |-> Throw(e)] : e \in TransportErrors }

LiveReturn(live) == [kind |-> "returned", live |-> live]
LiveRaise == [kind |-> "raised", live |-> FALSE]

\* core.ts:500: result.data of what request returned: the data of the
\* envelope when request returned the envelope; nothing when it returned
\* the envelope's data, which has no data of its own. The data object has
\* neither ret nor errmsg.
ResultData(v) ==
    IF v.kind = "body" /\ v.body.data # "none"
    THEN [shape |-> "object", ret |-> RetUndefined, errmsg |-> <<>>, data |-> v.body.data]
    ELSE NoBody

\* core.ts:500-501: const { user_id } = checkResult(result); !!user_id
UserIdOf(result) ==
    LET checked == checkResult([body |-> ResultData(result.value)])
    IN  IF checked.kind = "raised" THEN Throw(checked.error)
        ELSE Return(WholeBody(checked.value.body))

\* core.ts:488-505: request is awaited before the try block; checkResult is
\* applied to what request returned
getTokenLiveStatus(result) ==
    IF result.kind = "raised" THEN LiveRaise                             \* 489-498
    ELSE IF UserIdOf(result).kind = "raised" THEN LiveReturn(FALSE)      \* 502-504
    ELSE LiveReturn(UserIdOf(result).value.body.data = "userId")         \* 500-501

GetTokenLiveStatus ==
    /\ op = "getTokenLiveStatus"
    /\ call.pc = "call"
    /\ call' = Called(call.in, getTokenLiveStatus(call.in.result))
    /\ UNCHANGED <<op, reqVars, pollVars, upVars, jobVars>>

CallOps == {"aspectRatio", "createSignature", "getImageRatio", "createCompletionModel",
            "getTokenLiveStatus"}

InitCall ==
    /\ op = "aspectRatio" => call \in {Calling(x) : x \in [width : VideoSizes, height : VideoSizes]}
    /\ op = "createSignature" => call \in {Calling(x) : x \in SignatureInputs}
    /\ op = "getImageRatio" => call \in {Calling(x) : x \in RatioSizes}
    /\ op = "createCompletionModel" => call \in {Calling(x) : x \in ModelStrings}
    /\ op = "getTokenLiveStatus" => call \in {Calling(x) : x \in AccountCalls}

\* ------------------------------------------------------------------------
\* The system
\* ------------------------------------------------------------------------

\* Every component but the one the behaviour runs is idle.
IdleJobs == IdleFrames /\ IdleStream /\ IdleCompletion /\ IdleComposition /\ IdleWait

IdleCore == IdleRequest /\ IdlePolling /\ IdleUpload

Init ==
    \/ /\ IdleCall
       /\ \/ op = "request" /\ InitRequest /\ IdlePolling /\ IdleUpload /\ IdleJobs
          \/ op = "generateVideo" /\ IdleRequest /\ InitPolling /\ IdleUpload /\ IdleJobs
          \/ op \in UploadOps /\ IdleRequest /\ IdlePolling /\ InitUpload /\ IdleJobs
          \/ op = "generateVideoFrames" /\ IdleCore /\ InitFrames
             /\ IdleStream /\ IdleCompletion /\ IdleComposition /\ IdleWait
          \/ op = "createCompletionStream" /\ IdleRequest /\ InitPolling /\ IdleUpload /\ IdleFrames
             /\ InitStream /\ IdleCompletion /\ IdleComposition /\ IdleWait
          \/ op = "createCompletion" /\ IdleCore /\ IdleFrames
             /\ IdleStream /\ InitCompletion /\ IdleComposition /\ IdleWait
          \/ op = "generateImageComposition" /\ IdleCore /\ IdleFrames
             /\ IdleStream /\ IdleCompletion /\ InitComposition /\ IdleWait
          \/ op = "waitForImageGeneration" /\ IdleCore /\ IdleFrames
             /\ IdleStream /\ IdleCompletion /\ IdleComposition /\ InitWait
    \/ op \in CallOps /\ IdleCore /\ IdleJobs /\ InitCall

Next ==
    \/ RetryWait
    \/ AttemptResponse
    \/ AttemptFailure
    \/ RaiseLast
    \/ PollQueryFails
    \/ PollFindsUrlInText
    \/ PollNoRecord
    \/ PollRecord
    \/ AfterPolling
    \/ AcquireToken
    \/ DownloadImage
    \/ ApplyImageUpload
    \/ UploadBytes
    \/ CommitImageUpload
    \/ UploadFrame
    \/ SetFrames
    \/ SubmitJob
    \/ CloseStream
    \/ ProgressTick
    \/ TimeoutFires
    \/ VideoSettled
    \/ RejectEmptyMessages
    \/ RunGeneration
    \/ CompletionRetry
    \/ CompositionPoll
    \/ CompositionAfter
    \/ WaitPoll
    \/ WaitFinal
    \/ ComputeAspectRatio
    \/ CreateSignature
    \/ GetImageRatio
    \/ SelectModel
    \/ GetTokenLiveStatus

Spec == Init /\ [][Next]_vars

\* createCompletionStream alone, with the scheduling of the event loop: a
\* polling cycle that can run does run, the callbacks of a settled promise
\* and of a due timer are called. Which answer the upstream gives, and
\* whether the caller closes the stream, is left open.
PollCycle == PollQueryFails \/ PollFindsUrlInText \/ PollNoRecord \/ PollRecord

LiveInit ==
    /\ op = "createCompletionStream"
    /\ IdleRequest /\ InitPolling /\ IdleUpload /\ IdleFrames
    /\ InitStream /\ IdleCompletion /\ IdleComposition /\ IdleWait
    /\ IdleCall

LiveNext ==
    \/ PollCycle
    \/ AfterPolling
    \/ CloseStream
    \/ ProgressTick
    \/ TimeoutFires
    \/ VideoSettled

LiveSpec ==
    /\ LiveInit
    /\ [][LiveNext]_vars
    /\ WF_vars(PollCycle)
    /\ WF_vars(AfterPolling)
    /\ WF_vars(ProgressTick)
    /\ WF_vars(TimeoutFires)
    /\ WF_vars(VideoSettled)

\* ------------------------------------------------------------------------
\* Claims about request
\* ------------------------------------------------------------------------

NumAttempts == Len(Attempts(reqLog))

RequestEnded == reqPc = "done"

\* The attempt failed the way the retry policy names: an HTTP status >= 400
\* or a transport failure.
FailedAttempt(e) ==
    \/ e.kind = "response" /\ e.status >= 400
    \/ e.kind = "error"

IsTimeoutAttempt(e) == e.kind = "error" /\ e.code \in {"ECONNABORTED", "ETIMEDOUT"}

\* The transport failures the spec calls transient: connection reset, timeout.
IsTransientFailure(o) ==
    o.kind = "error" /\ o.err.code \in {"ECONNRESET", "ECONNABORTED", "ETIMEDOUT"}

\* The error the latest attempt itself produced.
ErrorOfAttempt(o) ==
    IF o.kind = "error" THEN o.err ELSE checkResult(o).error

\* request goes on to another attempt
RetriesAgain == reqPc \in {"delay", "send"}

\* C3: every call of request issues at least 1 and at most
\* MAX_RETRY_COUNT + 1 (= 4) HTTP attempts, and after the last allowed
\* attempt the call has returned or raised (no attempt follows it).
C3_AttemptsBounded ==
    op = "request" =>
        /\ NumAttempts <= MAX_RETRY_COUNT + 1
        /\ (RequestEnded => NumAttempts >= 1 /\ reqOut.kind \in {"returned", "raised"})
        /\ (NumAttempts = MAX_RETRY_COUNT + 1 => reqPc \in {"after", "done"})
        /\ (reqPc = "after" => lastError # NoError)

C3_Witness ==
    op = "request" /\ RequestEnded /\ NumAttempts = MAX_RETRY_COUNT + 1

\* C4: if every one of the MAX_RETRY_COUNT + 1 attempts fails (HTTP status
\* >= 400 or a transport failure), request ends by raising, and the error
\* raised is the one of the last attempt.
C4_AllFailedRaisesLast ==
    ( /\ op = "request"
      /\ RequestEnded
      /\ ~IsStream(options)
      /\ NumAttempts = MAX_RETRY_COUNT + 1
      /\ \A i \in 1..NumAttempts : FailedAttempt(Attempts(reqLog)[i]) )
    => /\ reqOut.kind = "raised"
       /\ reqOut.error = ErrorOfAttempt(lastAttempt)

\* An envelope {ret, errmsg, data}: a body object that carries a ret.
IsEnvelope(b) == b.shape = "object" /\ b.ret.type # "undefined"

\* ret is the string "0" or the number 0
IsZeroRet(ret) == IsStringZero(ret) \/ (ret.type = "number" /\ ret.num = 0)

\* C5: for an envelope received by request, ret "0" or 0 yields the
\* envelope's data; any other ret is routed to the error handler, and data
\* is not returned.
C5_EnvelopeRetDecides ==
    ( /\ op = "request"
      /\ RequestEnded
      /\ ~IsStream(options)
      /\ lastAttempt.kind = "response"
      /\ lastAttempt.status < 400
      /\ IsEnvelope(lastAttempt.body) )
    => IF IsZeroRet(lastAttempt.body.ret)
       THEN reqOut = Return(DataOf(lastAttempt.body))
       ELSE reqOut = Throw(handleApiResponse(lastAttempt.body))

\* C6: when every attempt fails with a transport timeout, request makes
\* MAX_RETRY_COUNT + 1 attempts in all (MAX_RETRY_COUNT retries, each after
\* one wait) and then raises the timeout.
C6_AlwaysTimeout ==
    ( /\ op = "request"
      /\ reqPc \in {"after", "done"}
      /\ \A i \in 1..NumAttempts : IsTimeoutAttempt(Attempts(reqLog)[i]) )
    => /\ NumAttempts = MAX_RETRY_COUNT + 1
       /\ Len(Waits(reqLog)) = MAX_RETRY_COUNT
       /\ lastError = lastAttempt.err
       /\ (RequestEnded => reqOut = Throw(lastAttempt.err))

C6_Witness ==
    /\ op = "request"
    /\ RequestEnded
    /\ NumAttempts = MAX_RETRY_COUNT + 1
    /\ \A i \in 1..NumAttempts : IsTimeoutAttempt(Attempts(reqLog)[i])
    /\ reqOut = Throw(TimeoutError)

\* C7: a transient transport failure (connection reset, timeout) on an
\* attempt that is not the last allowed one is not raised: another attempt
\* follows.
C7_TransientIsRetried ==
    ( /\ op = "request"
      /\ NumAttempts >= 1
      /\ NumAttempts <= MAX_RETRY_COUNT
      /\ IsTransientFailure(lastAttempt) )
    => RetriesAgain

\* Every retried attempt comes right after exactly one wait of RETRY_DELAY,
\* and the first attempt after none.
WaitsPrecedeRetries ==
    \A i \in 1..Len(reqLog) :
        IF reqLog[i].ev = "attempt"
        THEN i = 1 \/ (reqLog[i - 1].ev = "wait" /\ reqLog[i - 1].ms = RETRY_DELAY)
        ELSE i > 1 /\ reqLog[i - 1].ev = "attempt"

\* C8 as stated: a response with HTTP status >= 400 on an attempt that is
\* not the last allowed one is followed by another attempt, after one wait
\* of RETRY_DELAY, for every option set, streaming included.
C8_Original ==
    op = "request" =>
        /\ WaitsPrecedeRetries
        /\ ( ( /\ NumAttempts >= 1
               /\ NumAttempts <= MAX_RETRY_COUNT
               /\ lastAttempt.kind = "response"
               /\ lastAttempt.status >= 400 )
             => RetriesAgain )

\* C8 amended: the retry on HTTP status >= 400 holds for every option set
\* whose responseType is not "stream"; with responseType "stream" the
\* response is returned as it is, whatever its status, and no attempt
\* follows it.  One wait of RETRY_DELAY precedes every retried attempt in
\* both modes.
C8_StatusRetried ==
    op = "request" =>
        /\ WaitsPrecedeRetries
        /\ ( ( /\ NumAttempts >= 1
               /\ lastAttempt.kind = "response"
               /\ IsStream(options) )
             => RequestEnded /\ reqOut = Return(RawResponse(lastAttempt)) )
        /\ ( ( /\ NumAttempts >= 1
               /\ NumAttempts <= MAX_RETRY_COUNT
               /\ lastAttempt.kind = "response"
               /\ lastAttempt.status >= 400
               /\ ~IsStream(options) )
             => RetriesAgain )

C8_Witness ==
    /\ op = "request"
    /\ ~IsStream(options)
    /\ NumAttempts = 2
    /\ Len(Waits(reqLog)) = 1
    /\ Attempts(reqLog)[1].kind = "response"
    /\ Attempts(reqLog)[1].status >= 400

\* An application error in the body: an envelope whose ret is a number other
\* than 0.
IsAppError(b) ==
    IsEnvelope(b) /\ ToNumber(b.ret).finite /\ ToNumber(b.ret).value # 0

\* C9: a response with HTTP status below 400 whose envelope ret is not 0 is
\* raised after that attempt, and no further attempt is issued, whatever the
\* text of the error's message.
C9_AppErrorNotRetried ==
    ( /\ op = "request"
      /\ ~IsStream(options)
      /\ NumAttempts >= 1
      /\ lastAttempt.kind = "response"
      /\ lastAttempt.status < 400
      /\ IsAppError(lastAttempt.body) )
    => /\ reqPc \in {"after", "done"}
       /\ (RequestEnded => reqOut = Throw(handleApiResponse(lastAttempt.body)))

\* ------------------------------------------------------------------------
\* Claims about generateVideo's polling loop
\* ------------------------------------------------------------------------

\* C1: in generateVideo's polling loop (maxRetries = 60), when every status
\* query is answered by a record of status 20 the loop stops after exactly
\* 60 status queries and generateVideo reports the timeout; and a sequence
\* of status records is never queried more than 60 times.
C1_TimesOutAtSixty ==
    op = "generateVideo" =>
        /\ (answered \in {"onlyPending", "onlyRecords"} => queries <= maxPollRetries)
        /\ ( (answered = "onlyPending" /\ queries = maxPollRetries)
             => pollPc \in {"after", "done"} )
        /\ ( (answered = "onlyPending" /\ pollPc = "done")
             => queries = maxPollRetries /\ pollOut.reason = "timeout" )

\* C2: once a status response reports status 30, generateVideo ends by
\* raising the content-filtered failure when fail_code is "2038", and
\* otherwise the generation failure that carries that fail code.
C2_FailedStatusRaises ==
    ( /\ op = "generateVideo"
      /\ pollPc = "done"
      /\ lastAnswer.kind = "record"
      /\ lastAnswer.status = 30 )
    => /\ pollOut.kind = "raised"
       /\ pollOut # VideoRaised("API_IMAGE_GENERATION_FAILED", "noVideoUrl", NoFailCode)
       /\ IF lastAnswer.fail_code.text = "2038"
          THEN pollOut.errcode = "API_CONTENT_FILTERED"
          ELSE /\ pollOut.errcode = "API_IMAGE_GENERATION_FAILED"
               /\ pollOut.reason = "generationFailed"
               /\ pollOut.failCode = lastAnswer.fail_code

\* ------------------------------------------------------------------------
\* Claims about the upload pipeline
\* ------------------------------------------------------------------------

PipelineOrder == <<"token", "download", "apply", "upload", "commit">>

Issued(step) == \E i \in 1..Len(upCalls) : upCalls[i] = step

\* What it is for a step to have succeeded, read off its response alone.
TokenSucceeded ==
    /\ tokenResult.kind = "object"
    /\ tokenResult.access_key_id /\ tokenResult.secret_access_key
    /\ tokenResult.session_token
DownloadSucceeded == imageResponse = [transport |-> "resolved", ok |-> TRUE]
ApplySucceeded ==
    /\ applyResponse.transport = "resolved" /\ applyResponse.ok
    /\ ~applyResponse.error
    /\ applyResponse.address = "complete"
UploadSucceeded == uploadResponse = [transport |-> "resolved", ok |-> TRUE]
CommitSucceeded ==
    /\ commitResponse.transport = "resolved" /\ commitResponse.ok
    /\ ~commitResponse.error
    /\ commitResponse.results.shape = "one"
    /\ commitResponse.results.UriStatus = 2000

\* C10: the pipeline's calls occur in the order token acquisition,
\* (download,) apply, raw upload, commit; a step is issued only after every
\* earlier step succeeded; after a failed step, an apply response with a
\* nested ResponseMetadata.Error in particular, no later step is issued and
\* no image URI is returned.
C10_PipelineOrdered ==
    op \in UploadOps =>
        /\ Len(upCalls) <= Len(PipelineOrder)
        /\ upCalls = SubSeq(PipelineOrder, 1, Len(upCalls))
        /\ (Issued("download") => TokenSucceeded)
        /\ (Issued("apply") => TokenSucceeded /\ DownloadSucceeded)
        /\ (Issued("upload") => TokenSucceeded /\ DownloadSucceeded /\ ApplySucceeded)
        /\ (Issued("commit") =>
                TokenSucceeded /\ DownloadSucceeded /\ ApplySucceeded /\ UploadSucceeded)
        /\ (applyResponse.error => ~Issued("upload") /\ ~Issued("commit"))
        /\ (upOut.kind = "returned" =>
                /\ upCalls = PipelineOrder
                /\ TokenSucceeded /\ DownloadSucceeded /\ ApplySucceeded
                /\ UploadSucceeded /\ CommitSucceeded)
        /\ (upPc = "done" /\ upOut.kind # "returned" =>
                upOut = UpRaise(upCalls[Len(upCalls)]))

C10_Witness ==
    /\ op \in UploadOps
    /\ upPc = "done"
    /\ applyResponse.transport = "resolved" /\ applyResponse.ok
    /\ applyResponse.error
    /\ applyResponse.address = "complete"
    /\ upCalls = <<"token", "download", "apply">>
    /\ upOut = UpRaise("apply")

\* ------------------------------------------------------------------------
\* Claims about generateVideo's frames
\* ------------------------------------------------------------------------

\* The indexes of filePaths that hold a path.
NonEmptyIndexes == { i \in 1..Len(filePaths) : filePaths[i] # "" }

\* The first entry of filePaths that holds a path: the first frame.
FirstImageIndex ==
    CHOOSE i \in NonEmptyIndexes : \A j \in NonEmptyIndexes : i <= j

\* The upload of the entry at index i raised.
UploadFailedAt(i) ==
    \E k \in 1..Len(frameLog) : frameLog[k].index = i /\ frameLog[k].kind = "raised"

\* C11: if the upload of the first image of the request (the first non-empty
\* entry of filePaths) fails, generateVideo raises and no job is submitted.
C11_FirstFrameFatal ==
    ( /\ op = "generateVideoFrames"
      /\ NonEmptyIndexes # {}
      /\ UploadFailedAt(FirstImageIndex) )
    => /\ submitted = <<>>
       /\ framePc \notin {"submit"}
       /\ (framePc = "done" => frameOut.kind = "raised")

\* C12: with two input frames where the first upload succeeds and the second
\* fails, the upload phase raises nothing, the job is submitted, and the
\* submitted job has first_frame_image set to the first upload and no
\* end_frame_image.
C12_SecondFrameSoft ==
    ( /\ op = "generateVideoFrames"
      /\ Len(filePaths) = 2
      /\ filePaths[1] # "" /\ filePaths[2] # ""
      /\ Len(frameLog) = 2
      /\ frameLog[1].uri = UriOf(filePaths[1])
      /\ frameLog[2].uri = NoUri )
    => /\ framePc \in {"frames", "submit", "done"}
       /\ (framePc = "submit" => frameOut = FramePending)
       /\ (framePc = "done" =>
             /\ frameOut.reason \notin {"firstFrameUploadFailed", "allUploadsFailed"}
             /\ submitted = << [first_frame_image |-> UriOf(filePaths[1]),
                                end_frame_image |-> NoUri] >>)
       /\ (framePc \in {"submit", "done"} =>
             /\ first_frame_image = UriOf(filePaths[1])
             /\ end_frame_image = NoUri)

C12_Witness ==
    /\ op = "generateVideoFrames"
    /\ filePaths = <<"first.png", "second.png">>
    /\ frameLog = << [index |-> 1, kind |-> "returned", uri |-> UriOf("first.png")],
                     [index |-> 2, kind |-> "raised", uri |-> NoUri] >>
    /\ framePc = "done"
    /\ frameOut = FrameReturn(TRUE)
    /\ submitted = << [first_frame_image |-> UriOf("first.png"), end_frame_image |-> NoUri] >>

\* ------------------------------------------------------------------------
\* Claims about createCompletionStream
\* ------------------------------------------------------------------------

\* The two timers are released.
HandlesReleased == progressInterval = "cleared" /\ timeoutId \in {"cleared", "fired"}

\* C13: after the caller closes the stream of a video job, the progress
\* interval and the 2-minute timeout are released and no further status
\* query is issued for that job.
C13_CloseStopsPolling ==
    /\ [](op = "createCompletionStream" /\ stream = "destroyed" => HandlesReleased)
    /\ [][ (op = "createCompletionStream" /\ stream = "destroyed") => queries' = queries ]_vars

\* ------------------------------------------------------------------------
\* Claims about createCompletion
\* ------------------------------------------------------------------------

\* The failures that are not to be retried: content policy, and the failure
\* of an upload (API_REQUEST_FAILED is what generateVideo raises for one).
IsNeverRetried(g) ==
    g.kind = "raised" /\ g.api /\ g.errcode \in {"API_CONTENT_FILTERED", "API_REQUEST_FAILED"}

\* C14: once a caller request has met a content-policy failure or an
\* upload failure (or an authentication failure), no further upstream
\* request is made for it: createCompletion does not run the generation
\* again, and a polling loop issues no other status query.
C14_NoRetryAfterFatal ==
    /\ ( op = "createCompletion" =>
           /\ \A i \in 1..Len(ccRuns) - 1 : ~IsNeverRetried(ccRuns[i])
           /\ ( (Len(ccRuns) > 0 /\ IsNeverRetried(ccRuns[Len(ccRuns)]))
                => ccPc = "done" /\ ccOut = CompletionRaise(ccRuns[Len(ccRuns)]) ) )
    /\ ( (op \in PollingOps /\ caught.errcode = "API_CONTENT_FILTERED")
         => pollPc \in {"after", "done"} )

\* ------------------------------------------------------------------------
\* Claims about the status codes in generateVideo's polling loop
\* ------------------------------------------------------------------------

\* C15: a status response whose status is 42 or 45 and that carries no
\* result items is non-terminal: the job neither fails nor completes by it,
\* and another status query follows unless the attempt cap is reached.
C15_TransitionalNonTerminal ==
    ( /\ op \in PollingOps
      /\ lastAnswer.kind = "record"
      /\ lastAnswer.status \in {42, 45}
      /\ item_list.len = 0
      /\ retryCount < maxPollRetries )
    => /\ pollPc = "poll"
       /\ pollOut = VideoPending

\* C16: generateVideo returns media as a successful result only from a
\* status response whose status is 10 or 50, never from one whose status is
\* 20 or 30.
C16_SuccessOnlyWhenComplete ==
    (op \in PollingOps /\ pollOut.kind = "returned")
    => lastAnswer.status \in {10, 50}

\* C18: in generateVideo's polling loop a status response without a record
\* increases the attempt counter by exactly one, leaves the status at 20,
\* ends polling only when the counter has reached the cap, and is followed
\* by a wait of min(2000 x (attempt + 1), 30000) ms, attempt being the
\* counter's value when the wait is computed.
C18_SoftMiss ==
    [][ ( /\ op \in PollingOps
          /\ queries' = queries + 1
          /\ lastAnswer'.kind = "miss" )
        => /\ retryCount' = retryCount + 1
           /\ status' = status
           /\ status' = 20
           /\ pollOut' = VideoPending
           /\ pollPc' = (IF retryCount' < maxPollRetries THEN "poll" ELSE "after")
           /\ lastWait' = (IF 2000 * (retryCount' + 1) < 30000
                           THEN 2000 * (retryCount' + 1) ELSE 30000) ]_vars

C18_Witness ==
    /\ op = "generateVideo"
    /\ lastAnswer.kind = "miss"
    /\ retryCount = 20
    /\ lastWait = 30000
    /\ pollPc = "poll"

\* ------------------------------------------------------------------------
\* Claims about the polling loops of the image operations
\* ------------------------------------------------------------------------

\* The latest status response reported status 10 or 50.
VideoComplete == lastAnswer.kind = "record" /\ lastAnswer.status \in {10, 50}
CompositionComplete == icLast.kind = "record" /\ icLast.status \in {10, 50}
WaitComplete == wfLast.kind = "record" /\ wfLast.status \in {10, 50}

C19_CompositionSoftMiss ==
    ( /\ op = "generateImageComposition"
      /\ icLast.kind = "miss"
      /\ pollCount < maxPollCount )
    => /\ icPc = "poll"
       /\ icOut = ImagesPending

\* C20: when generateImageComposition reaches its 600 polls with the job
\* still pending (no status 30, no result items), it ends with a timed-out
\* outcome, distinguishable from a successful result.
C20_CompositionTimesOut ==
    ( /\ op = "generateImageComposition"
      /\ icPc = "done"
      /\ pollCount = maxPollCount
      /\ icLast.kind = "record"
      /\ icStatus # 30
      /\ icItems = "none" )
    => /\ icOut.kind = "raised"
       /\ icOut.reason = "timeout"

\* ------------------------------------------------------------------------
\* Claims about what the jobs raise and return
\* ------------------------------------------------------------------------

\* C21: every failure that generateVideo or generateImageComposition raises
\* after the job's historyId has been obtained (failed status, content
\* filtered, timeout, missing record, failed status query, missing result
\* URL) carries that historyId.
C21_FailuresCarryHistoryId ==
    /\ (op \in PollingOps /\ pollOut.kind = "raised" => pollOut.historyId)
    /\ (op = "generateImageComposition" /\ icOut.kind = "raised" => icOut.historyId)

\* C22: if the job-submission response carries no history id (aigc_data is
\* absent, or it has no history_record_id) the generation raises the typed
\* generation failure, an APIException, and issues no status query.
C22_NoHistoryIdRaisesTyped ==
    ( /\ op = "generateVideoFrames"
      /\ framePc = "done"
      /\ frameOut.reason \in {"noAigcData", "noHistoryId"} )
    => /\ frameOut.kind = "raised"
       /\ frameOut.errcode = "API_IMAGE_GENERATION_FAILED"
       /\ queries = 0

\* ------------------------------------------------------------------------
\* Claims about the checks and the timeouts of the upload pipeline
\* ------------------------------------------------------------------------

\* C23: for a remote-URL input an upload operation performs the
\* existence/size check before it downloads the content, and an input whose
\* reported size exceeds 100 MiB is rejected with no download and no
\* upstream upload call.
C23_SizeCheckedBeforeDownload ==
    (op \in UploadOps /\ imageSize = "exceeds")
    => /\ ~Issued("download")
       /\ ~Issued("apply") /\ ~Issued("upload") /\ ~Issued("commit")
       /\ upOut.kind # "returned"

C24_StreamEndsWithSentinel ==
    /\ <>(stream \in {"ended", "destroyed"})
    /\ [](stream = "ended" => chunks[Len(chunks)] = "[DONE]")
    /\ [][stream = "ended" => chunks' = chunks]_vars

\* ------------------------------------------------------------------------
\* Claims about the queries, the waits and the result of generateVideo
\* ------------------------------------------------------------------------

\* The video URLs the first item of the latest response carries.
AnsweredUrls ==
    {lastAnswer.item_list.origin, lastAnswer.item_list.play_url,
     lastAnswer.item_list.download_url, lastAnswer.item_list.url} \ {""}

\* The status queries were answered 20, 20 and then 10 with one item that
\* carries one URL, the only video URL of the response.
AnsweredTwiceTwentyThenTen ==
    /\ op = "generateVideo"
    /\ queries = 3
    /\ answered \in {"onlyRecords", "pendingThenText"}
    /\ lastAnswer.kind \in {"record", "text"}
    /\ lastAnswer.status = 10
    /\ lastAnswer.item_list.len = 1
    /\ Cardinality(AnsweredUrls) = 1

C27_UrlByPrecedence ==
    (op = "generateVideo" /\ pollOut.kind = "returned")
    => LET first == lastAnswer.item_list IN
       /\ first.len = 1
       /\ pollOut.url = (IF first.origin # "" THEN first.origin
                         ELSE IF first.play_url # "" THEN first.play_url
                         ELSE IF first.download_url # "" THEN first.download_url
                         ELSE first.url)

\* C28: in generateVideo each polling cycle issues exactly one status
\* query; it uses the alternate shape (get_history_records) exactly in the
\* cycles where the attempt counter is greater than 10 and even, and the
\* primary shape (get_history_by_ids) in every other cycle, so the counter
\* values 0..10 always use the primary shape.
C28_QueryShapeByCounter ==
    [][ (op = "generateVideo" /\ pollPc = "poll")
        => /\ queries' = queries + 1
           /\ lastAnswer'.shape =
                (IF retryCount > 10 /\ retryCount % 2 = 0
                 THEN "get_history_records" ELSE "get_history_by_ids")
           /\ (retryCount \in 0..10 => lastAnswer'.shape = "get_history_by_ids") ]_vars

C28_Witness ==
    /\ op = "generateVideo"
    /\ lastAnswer.kind = "record" /\ lastAnswer.status = 20
    /\ retryCount = 12
    /\ lastAnswer.shape = "get_history_records"

\* C29: in generateVideo's polling loop every wait between two consecutive
\* status queries of one job stays within the schedule's caps: at most
\* 10000 ms after a response with status 20, and at most 30000 ms after any
\* other non-terminal cycle (a soft-miss or a status query that raised).
C29_WaitsWithinCaps ==
    (op = "generateVideo" /\ pollPc = "poll" /\ queries > 0)
    => IF lastAnswer.kind = "record" THEN lastWait <= 10000 ELSE lastWait <= 30000

\* C30: in the commit step of the upload pipeline an image URI is returned
\* only if the commit response has no error envelope, a non-empty result
\* list, and a first result whose UriStatus is 2000; the URI returned is
\* then the plugin result's ImageUri when that field is present and
\* non-empty, and the first result's Uri otherwise; every other commit
\* response makes the upload fail.
C30_CommitUri ==
    (op \in UploadOps /\ Issued("commit") /\ upPc = "done")
    => IF CommitSucceeded
       THEN upOut = UpReturn(IF commitResponse.plugin = "pluginUri" THEN "pluginUri"
                             ELSE commitResponse.results.Uri)
       ELSE upOut = UpRaise("commit")

C30_Witness ==
    /\ op \in UploadOps
    /\ upPc = "done"
    /\ commitResponse.results.Uri = "resultUri"
    /\ commitResponse.plugin = "pluginUri"
    /\ upOut = UpReturn("pluginUri")

\* C31: for positive width and height, the video_aspect_ratio generateVideo
\* submits is "a:b" with a = width / g and b = height / g, g the greatest
\* common divisor of width and height: g divides both and no greater number
\* does, a and b have no common divisor above 1, and a x height = b x width.
C31_AspectRatioReduced ==
    (op = "aspectRatio" /\ call.pc = "done") =>
        LET width == call.in.width
            height == call.in.height
            a == call.out[1]
            b == call.out[3]
            Divides(d, n) == n % d = 0
            g == CHOOSE d \in 1..width :
                    /\ Divides(d, width) /\ Divides(d, height)
                    /\ \A e \in 1..width : Divides(e, width) /\ Divides(e, height) => e <= d
        IN  /\ call.out = <<a, ":", b>>
            /\ a * g = width /\ b * g = height
            /\ \A d \in 2..a : ~(Divides(d, a) /\ Divides(d, b))
            /\ a * height = b * width

\* C31 witness: 1024 x 1024 was given 1:1 and 1280 x 720 would be 16:9.
C31_Witness ==
    /\ op = "aspectRatio" /\ call.pc = "done"
    /\ call.in = [width |-> 1024, height |-> 1024]
    /\ call.out = <<1, ":", 1>>
    /\ aspectRatio(1280, 720) = <<16, ":", 9>>

\* The place of a parameter name in ascending lexicographic order.
NameRank(k) == CASE k = <<"a">> -> 1 [] k = <<"a", "b">> -> 2 [] k = <<"b">> -> 3

\* q is ps rearranged by pi.
Rearranged(ps, q, pi) ==
    /\ Len(q) = Len(ps)
    /\ \A i \in 1..Len(ps) : q[i] = ps[pi[i]]

\* text is the pairs of q as key=value joined by '&'.
JoinedPairs(q, text) ==
    /\ Len(text) = (IF q = <<>> THEN 0 ELSE 4 * Len(q) - 1)
    /\ \A i \in 1..Len(q) :
          /\ text[4 * i - 3] = q[i][1] /\ text[4 * i - 2] = "=" /\ text[4 * i - 1] = q[i][2]
          /\ i < Len(q) => text[4 * i] = "&"

\* C32: the canonical query string of createSignature is the query
\* parameters as key=value joined by '&', in ascending order of name, the
\* parameters of one name in their original order, none added, dropped or
\* duplicated: it is the join of a rearrangement of the parameters by a
\* one-to-one map of positions that is ordered by name and keeps the order
\* of positions among equal names.
C32_CanonicalQueryString ==
    (op = "createSignature" /\ call.pc = "done") =>
        LET ps == call.in.queryParams
            n == Len(ps)
        IN  \E pi \in [1..n -> 1..n] :
               /\ \A i, j \in 1..n : i # j => pi[i] # pi[j]
               /\ \A i, j \in 1..n : i < j =>
                     \/ NameRank(ps[pi[i]][1]) < NameRank(ps[pi[j]][1])
                     \/ /\ ps[pi[i]][1] = ps[pi[j]][1]
                        /\ pi[i] < pi[j]
               /\ JoinedPairs([i \in 1..n |-> ps[pi[i]]], call.out.canonicalQueryString)

\* C32 witness: b=2&a=1 became a=1&b=2, a=2&b=1&a=1 is a=2&a=1&b=1, and
\* "ab" sorts between "a" and "b".
C32_Witness ==
    /\ op = "createSignature" /\ call.pc = "done"
    /\ call.in.queryParams = << <<(<<"b">>), "2">>, <<(<<"a">>), "1">> >>
    /\ call.out.canonicalQueryString = << <<"a">>, "=", "1", "&", <<"b">>, "=", "2" >>
    /\ canonicalQueryString(<< <<(<<"a">>), "2">>, <<(<<"b">>), "1">>, <<(<<"a">>), "1">> >>)
          = << <<"a">>, "=", "2", "&", <<"a">>, "=", "1", "&", <<"b">>, "=", "1" >>
    /\ SortParams(<< <<(<<"b">>), "1">>, <<(<<"a", "b">>), "1">>, <<(<<"a">>), "1">> >>)
          = << <<(<<"a">>), "1">>, <<(<<"a", "b">>), "1">>, <<(<<"b">>), "1">> >>

\* The place of a header name in ascending order.
HeaderRank(h) ==
    CASE h = "x-amz-content-sha256" -> 1 [] h = "x-amz-date" -> 2
      [] h = "x-amz-security-token" -> 3

\* C33: in createSignature the payload hash is the hash of the payload
\* exactly when the method is POST and the payload is not empty, and the
\* hash of the empty string otherwise; the signed headers hold
\* x-amz-content-sha256 exactly in the former case, always x-amz-date,
\* x-amz-security-token exactly when a session token is given, and are in
\* ascending order of name.
C33_PayloadHashAndSignedHeaders ==
    (op = "createSignature" /\ call.pc = "done") =>
        LET in == call.in
            signed == call.out.signedHeaders
            Signed(h) == \E i \in 1..Len(signed) : signed[i] = h
            carriesBody == in.method \in {"POST", "post"} /\ in.payload # ""
        IN  /\ call.out.payloadHash = (IF carriesBody THEN <<"sha256", in.payload>>
                                       ELSE <<"sha256", "">>)
            /\ Signed("x-amz-content-sha256") <=> carriesBody
            /\ Signed("x-amz-date")
            /\ Signed("x-amz-security-token") <=> in.sessionToken = "token"
            /\ \A i, j \in 1..Len(signed) : i < j => HeaderRank(signed[i]) < HeaderRank(signed[j])

\* C33 witness: a lower-case post with a payload and a session token signs
\* the three headers; a GET with a payload hashes the empty string.
C33_Witness ==
    /\ op = "createSignature" /\ call.pc = "done"
    /\ call.in.method = "post" /\ call.in.payload = "body" /\ call.in.sessionToken = "token"
    /\ call.out.payloadHash = <<"sha256", "body">>
    /\ call.out.signedHeaders = <<"x-amz-content-sha256", "x-amz-date", "x-amz-security-token">>
    /\ payloadHash("GET", "body") = <<"sha256", "">>

\* C34: getImageRatio applied to the width and height of an entry of
\* ASPECT_RATIOS returns that entry's ratio code.
C34_TableEntryGetsItsCode ==
    (op = "getImageRatio" /\ call.pc = "done") =>
        \A e \in ASPECT_RATIOS :
            (call.in.width = e.width /\ call.in.height = e.height) => call.out = e.ratio

\* C35: for a model string "name:WxH" whose name is a key of the model map,
\* the upstream model of the submitted job is the one mapped to name, for
\* video models as for image models.
C35_SizedModelUsesMappedModel ==
    (op = "createCompletionModel" /\ call.pc = "done" /\ Len(call.in) = 2) =>
        LET name == call.in[1]
        IN  /\ name \in DOMAIN VIDEO_MODEL_MAP => call.out = VIDEO_MODEL_MAP[name]
            /\ name \in DOMAIN IMAGE_MODEL_MAP => call.out = IMAGE_MODEL_MAP[name]

\* C36: getTokenLiveStatus returns true exactly when the account-info call
\* answers with a success envelope whose data carries a user_id; in every
\* other case, a rejected token and a failed call included, it returns
\* false and does not raise.
C36_LiveStatusNeverRaises ==
    (op = "getTokenLiveStatus" /\ call.pc = "done") =>
        LET answer == call.in.answer
            success == /\ answer.kind = "response"
                       /\ answer.body.shape = "object"
                       /\ answer.body.ret \in {RetUndefined, RetString(<<"0">>)}
                       /\ answer.body.data = "userId"
        IN  /\ call.out.kind = "returned"
            /\ call.out.live <=> success

\* The upload of filePaths[i] returned the URI uri.
UploadedAt(i, uri) ==
    \E k \in 1..Len(frameLog) :
        frameLog[k].index = i /\ frameLog[k].kind = "returned" /\ frameLog[k].uri = uri

\* C37: in every job generateVideo submits, first_frame_image, when present,
\* is the upload of filePaths[0] and end_frame_image, when present, is the
\* upload of filePaths[1] (positions 1 and 2 here), whichever uploads failed
\* or were skipped.
C37_FramesKeepTheirPositions ==
    op = "generateVideoFrames" =>
        \A k \in 1..Len(submitted) :
            /\ submitted[k].first_frame_image # NoUri =>
                  UploadedAt(1, submitted[k].first_frame_image)
            /\ submitted[k].end_frame_image # NoUri =>
                  UploadedAt(2, submitted[k].end_frame_image)

\* The chunks written with finish_reason "stop" (part_000:252, 335, 381).
StopChunks == {"takingLonger", "stop", "issue"}

\* C38: in every stream of createCompletionStream, whatever the order of
\* the progress interval, the 2-minute timeout and the end of the
\* generation, at most one chunk carries finish_reason "stop" and nothing
\* but the [DONE] sentinel is written after it.
C38_OneStopChunk ==
    op = "createCompletionStream" =>
        \A i, j \in 1..Len(chunks) :
            (i < j /\ chunks[i] \in StopChunks) => chunks[j] = "[DONE]"

\* C39: waitForImageGeneration issues at most maxPollCount + 1 status
\* queries and then ends: each cycle of the loop issues one query and counts
\* it, the loop runs only below maxPollCount, the one final query is issued
\* at maxPollCount polls and ends the operation; it returns the images of
\* the final response when that holds at least one, and the timeout
\* failure is raised only by the final query and only when its response
\* holds none.
C39_PollsThenOneFinalQuery ==
    /\ [](op = "waitForImageGeneration" =>
            /\ wfPollCount <= wfMaxPollCount
            /\ wfPc = "poll" => wfPollCount < wfMaxPollCount
            /\ wfPc = "final" => wfPollCount = wfMaxPollCount
            /\ wfOut.reason = "timeout" => wfPc = "done" /\ wfPollCount = wfMaxPollCount)
    /\ [][op = "waitForImageGeneration" =>
            /\ wfPc = "poll" => wfPollCount' = wfPollCount + 1
            /\ wfPc = "final" =>
                  /\ wfPc' = "done"
                  /\ wfPollCount' = wfPollCount
                  /\ (wfLast'.kind = "record" /\ wfLast'.items # "none") =>
                        wfOut' = ImagesReturned(wfLast'.items)
                  /\ wfOut'.reason = "timeout" =>
                        \/ wfLast'.kind = "miss"
                        \/ wfLast'.kind = "record" /\ wfLast'.items = "none"
            /\ wfPc = "done" => UNCHANGED <<wfPollCount, wfOut, wfLast, wfPc>>]_vars

\* C39 witness: after maxPollCount polls the final query found a record
\* still in progress with some images, and they were returned.
C39_Witness ==
    /\ op = "waitForImageGeneration" /\ wfPc = "done"
    /\ wfPollCount = wfMaxPollCount /\ wfMaxPollCount > 1
    /\ wfLast.kind = "record" /\ wfLast.status = 20 /\ wfLast.items = "some"
    /\ wfOut = ImagesReturned("some")
====
